---- MODULE Spec2Model ----
(***************************************************************************)
(* Audit-and-eligibility engine and claim ledger of the logistics treasury *)
(* engine: app/routers/ingest.py (ingest_and_audit and its helpers),       *)
(* promote_claims.py, carrier_alpha.py (mark_claims_submitted,             *)
(* reconcile_claim) and execute_claims.py (execute_batch).                 *)
(*                                                                         *)
(* Conventions.  Python strings that the code transforms (strip, upper,    *)
(* split, substring test) are sequences of one-character strings.  Money   *)
(* is an integer number of cents.  Times are integer minutes; a datetime   *)
(* is a record [t, aware, off] of wall-clock minutes, tz-awareness and UTC *)
(* offset.  Python None is NULL in integer columns, NoneStr in string      *)
(* columns and the empty sequence in formatted-text columns.               *)
(***************************************************************************)
EXTENDS Integers, Sequences, FiniteSets, TLC

VARIABLES
    shipments,            \* table shipments: set of rows
    audit_results,        \* table audit_results: set of rows
    claims,               \* table claims: set of rows
    service_commitments,  \* reference table, read only
    exception_rules,      \* reference table, read only
    now,                  \* latest reading of the wall clock
    last,                 \* the latest call: its inputs, locals and response
    decided,              \* history: the evaluations of the decision so far
    inflight,             \* the submission runs between their read and writes
    calls                 \* the ingest_and_audit calls in progress, by step

vars == <<shipments, audit_results, claims, service_commitments,
          exception_rules, now, last, decided, inflight, calls>>

ledger == <<shipments, audit_results, claims>>

(***************************************************************************)
(* Bounds of the model.                                                    *)
(***************************************************************************)
\* largest reading of the wall clock (datetime.now)
MaxClock == 4
\* largest number of rows of the claims table
MaxClaims == 2
\* the calls of ingest_and_audit that run step by step in one behaviour
MaxCalls == 2
\* the times one upsert is executed with the same arguments
MaxRuns == 3

NULL == -1
NoneStr == "None"

(***************************************************************************)
(* Python string primitives over sequences of characters.                  *)
(***************************************************************************)
LowerChars == <<"a","b","c","d","e","f","g","h","i","j","k","l","m",
                "n","o","p","q","r","s","t","u","v","w","x","y","z">>
UpperChars == <<"A","B","C","D","E","F","G","H","I","J","K","L","M",
                "N","O","P","Q","R","S","T","U","V","W","X","Y","Z">>

\* str.upper() on one character
UpperChar(c) ==
    IF \E i \in 1..Len(LowerChars) : LowerChars[i] = c
    THEN UpperChars[CHOOSE i \in 1..Len(LowerChars) : LowerChars[i] = c]
    ELSE c

\* str.upper()
Upper(s) == [i \in 1..Len(s) |-> UpperChar(s[i])]

IsSpace(c) == c \in {" ", "\t"}

RECURSIVE LStrip(_)
\* str.lstrip()
LStrip(s) == IF s # <<>> /\ IsSpace(Head(s)) THEN LStrip(Tail(s)) ELSE s

RECURSIVE RStrip(_)
\* str.rstrip()
RStrip(s) ==
    IF s # <<>> /\ IsSpace(s[Len(s)]) THEN RStrip(SubSeq(s, 1, Len(s) - 1))
    ELSE s

\* str.strip()
Strip(s) == RStrip(LStrip(s))

RECURSIVE SplitAcc(_, _, _)
\* str.split() with no separator: the maximal runs of non-space characters
SplitAcc(s, cur, acc) ==
    IF s = <<>> THEN (IF cur = <<>> THEN acc ELSE Append(acc, cur))
    ELSE IF IsSpace(Head(s))
         THEN SplitAcc(Tail(s), <<>>,
                       IF cur = <<>> THEN acc ELSE Append(acc, cur))
         ELSE SplitAcc(Tail(s), Append(cur, Head(s)), acc)

Split(s) == SplitAcc(s, <<>>, <<>>)

RECURSIVE JoinSpace(_)
\* " ".join(words)
JoinSpace(ws) ==
    IF ws = <<>> THEN <<>>
    ELSE IF Len(ws) = 1 THEN ws[1]
    ELSE ws[1] \o <<" ">> \o JoinSpace(Tail(ws))

\* the Python test `kw in text` on strings
Contains(text, kw) ==
    \E i \in 1..(Len(text) - Len(kw) + 1) :
        SubSeq(text, i, i + Len(kw) - 1) = kw

(***************************************************************************)
(* Normalization layer.                                                    *)
(***************************************************************************)
S_FEDEX == <<"F","E","D","E","X">>
S_FEDX == <<"F","E","D","X">>
S_FDX == <<"F","D","X">>
S_UPS == <<"U","P","S">>
S_UNITED_PARCEL_SERVICE ==
    <<"U","N","I","T","E","D"," ","P","A","R","C","E","L"," ",
      "S","E","R","V","I","C","E">>

_normalize_carrier(carrier) ==
    LET c == Upper(Strip(carrier))
    IN  IF c \in {S_FEDEX, S_FEDX, S_FDX} THEN S_FEDEX
        ELSE IF c \in {S_UPS, S_UNITED_PARCEL_SERVICE} THEN S_UPS
        ELSE c

\* mutant of _normalize_service_type: the runs of whitespace are kept
_normalize_service_type_uncollapsed(service_type) ==
    IF service_type = <<>> THEN <<>>
    ELSE Upper(Strip(service_type))

_normalize_service_type(service_type) ==
    IF service_type = <<>> THEN <<>>
    ELSE JoinSpace(Split(Upper(Strip(service_type))))

\* confidence is kept in tenths: 0.7 is 7 and 1.0 is 10
CONF_ASSUMED == 7
CONF_GIVEN == 10

\* Python None where a datetime is expected
NoneDt == [t |-> NULL, aware |-> FALSE, off |-> 0]

\* (utc_dt, timezone_assumption, confidence) of a datetime; raise when the
\* function raises ValueError("Datetime cannot be None")
_to_utc_with_assumption(dt) ==
    IF dt = NoneDt
    THEN [raise |-> TRUE, utc |-> NULL, assumption |-> NoneStr, conf |-> 0]
    ELSE IF ~dt.aware
    THEN [raise |-> FALSE, utc |-> dt.t, assumption |-> "UTC_ASSUMED",
          conf |-> CONF_ASSUMED]
    ELSE [raise |-> FALSE, utc |-> dt.t - dt.off, assumption |-> "SOURCE_TZ",
          conf |-> CONF_GIVEN]

\* mutant of Min: the greater of the two
Min_taking_greater(a, b) == IF a <= b THEN b ELSE a

Min(a, b) == IF a <= b THEN a ELSE b
Abs(x) == IF x < 0 THEN -x ELSE x

(***************************************************************************)
(* Service guarantee resolver.                                             *)
(***************************************************************************)
\* mutant of _is_service_guaranteed: rows are read whatever their valid_to
_is_service_guaranteed_any_validity(db_commitments, carrier, service_type_norm) ==
    IF service_type_norm = <<>> THEN {FALSE}
    ELSE LET cur == {r \in db_commitments :
                        /\ r.carrier = carrier
                        /\ r.service_type = service_type_norm}
             top == {r \in cur : \A q \in cur : q.valid_from <= r.valid_from}
         IN  IF cur = {} THEN {FALSE} ELSE {r.guaranteed : r \in top}

\* mutant of _is_service_guaranteed: ordered by valid_from ascending
_is_service_guaranteed_oldest_first(db_commitments, carrier, service_type_norm) ==
    IF service_type_norm = <<>> THEN {FALSE}
    ELSE LET cur == {r \in db_commitments :
                        /\ r.carrier = carrier
                        /\ r.service_type = service_type_norm
                        /\ r.valid_to = NULL}
             top == {r \in cur : \A q \in cur : r.valid_from <= q.valid_from}
         IN  IF cur = {} THEN {FALSE} ELSE {r.guaranteed : r \in top}

\* The set of values the query can return: current rows (valid_to null) of
\* the key, greatest valid_from first, limit 1; rows that tie on valid_from
\* come back in an order the query does not fix.
_is_service_guaranteed(db_commitments, carrier, service_type_norm) ==
    IF service_type_norm = <<>> THEN {FALSE}
    ELSE LET cur == {r \in db_commitments :
                        /\ r.carrier = carrier
                        /\ r.service_type = service_type_norm
                        /\ r.valid_to = NULL}
             top == {r \in cur : \A q \in cur : q.valid_from <= r.valid_from}
         IN  IF cur = {} THEN {FALSE} ELSE {r.guaranteed : r \in top}

(***************************************************************************)
(* Exception resolver.                                                     *)
(***************************************************************************)
EXCUSABLE_KEYWORDS ==
    << <<"W","E","A","T","H","E","R">>,
       <<"N","A","T","U","R","A","L"," ","D","I","S","A","S","T","E","R">>,
       <<"E","M","E","R","G","E","N","C","Y">>,
       <<"F","O","R","C","E"," ","M","A","J","E","U","R","E">>,
       <<"S","T","R","I","K","E">>,
       <<"N","A","T","I","O","N","A","L"," ","E","M","E","R","G","E","N","C","Y">>,
       <<"S","E","C","U","R","I","T","Y"," ","D","E","L","A","Y">>,
       <<"G","O","V","E","R","N","M","E","N","T">>,
       <<"A","C","T"," ","O","F"," ","G","O","D">>,
       <<"C","L","O","S","E","D"," ","D","U","E"," ","T","O">> >>

NoException ==
    [found |-> FALSE, category |-> NoneStr,
     signal |-> [tier |-> NoneStr, value |-> <<>>]]

\* mutant of FallbackHit: a non-excusable KEYWORD rule of the table whose
\* value occurs in the text switches the static list off
FallbackHit_unless_overruled(text_u) ==
    LET hits == {i \in 1..Len(EXCUSABLE_KEYWORDS) :
                    Contains(text_u, EXCUSABLE_KEYWORDS[i])}
        overruled == \E r \in exception_rules :
                        /\ r.match_type = "KEYWORD"
                        /\ ~r.excusable
                        /\ r.match_value # <<>>
                        /\ Contains(text_u, Upper(r.match_value))
    IN  IF hits = {} \/ overruled THEN NoException
        ELSE LET i == CHOOSE j \in hits : \A k \in hits : j <= k
             IN  [found |-> TRUE, category |-> "OTHER",
                  signal |-> [tier |-> "KW_FALLBACK:",
                              value |-> EXCUSABLE_KEYWORDS[i]]]

\* first keyword of the static list that occurs in the text
FallbackHit(text_u) ==
    LET hits == {i \in 1..Len(EXCUSABLE_KEYWORDS) :
                    Contains(text_u, EXCUSABLE_KEYWORDS[i])}
    IN  IF hits = {} THEN NoException
        ELSE LET i == CHOOSE j \in hits : \A k \in hits : j <= k
             IN  [found |-> TRUE, category |-> "OTHER",
                  signal |-> [tier |-> "KW_FALLBACK:",
                              value |-> EXCUSABLE_KEYWORDS[i]]]

\* mutant of _lookup_exception_rule: the KEYWORD rules are tried before
\* the CODE rule
_lookup_exception_rule_keywords_first(db_rules, carrier0, code, text) ==
    LET carrier == Upper(Strip(carrier0))
        text_u  == Upper(text)
        code_u  == Upper(code)
        codeRows == {r \in db_rules :
                        /\ r.carrier = carrier
                        /\ r.match_type = "CODE"
                        /\ r.match_value = code_u}
        codeHits == IF code_u = <<>> THEN {}
                    ELSE {[found |-> TRUE, category |-> r.category,
                           signal |-> [tier |-> "CODE:",
                                       value |-> r.match_value]] :
                             r \in {q \in codeRows : q.excusable}}
        kwRows == {r \in db_rules :
                      /\ r.carrier = carrier
                      /\ r.match_type = "KEYWORD"
                      /\ r.match_value # <<>>
                      /\ Contains(text_u, Upper(r.match_value))
                      /\ r.excusable}
        kwHits == {[found |-> TRUE, category |-> r.category,
                    signal |-> [tier |-> "KW:",
                                value |-> Upper(r.match_value)]] :
                      r \in kwRows}
    IN  IF kwHits # {} THEN kwHits
        ELSE IF codeHits # {} THEN codeHits
        ELSE {FallbackHit(text_u)}

\* mutant of _lookup_exception_rule: a matching CODE row that is not
\* excusable ends the search with not-found
_lookup_exception_rule_code_authoritative(db_rules, carrier0, code, text) ==
    LET carrier == Upper(Strip(carrier0))
        text_u  == Upper(text)
        code_u  == Upper(code)
        codeRows == {r \in db_rules :
                        /\ r.carrier = carrier
                        /\ r.match_type = "CODE"
                        /\ r.match_value = code_u}
        codeHits == IF code_u = <<>> THEN {}
                    ELSE {[found |-> TRUE, category |-> r.category,
                           signal |-> [tier |-> "CODE:",
                                       value |-> r.match_value]] :
                             r \in {q \in codeRows : q.excusable}}
        \* the search goes on when the row returned is absent or not excusable
        goesOn == \/ code_u = <<>>
                  \/ codeRows = {}
                  \/ \E r \in codeRows : ~r.excusable
        kwRows == {r \in db_rules :
                      /\ r.carrier = carrier
                      /\ r.match_type = "KEYWORD"
                      /\ r.match_value # <<>>
                      /\ Contains(text_u, Upper(r.match_value))
                      /\ r.excusable}
        kwHits == {[found |-> TRUE, category |-> r.category,
                    signal |-> [tier |-> "KW:",
                                value |-> Upper(r.match_value)]] :
                      r \in kwRows}
    IN  codeHits \cup
        (IF ~goesOn THEN {}
         ELSE IF \E r \in codeRows : ~r.excusable THEN {NoException}
         ELSE IF kwHits # {} THEN kwHits
         ELSE {FallbackHit(text_u)})

\* The set of results (exception_found, category, signal) the resolver can
\* return.  The CODE query is limit(1) without an order and the KEYWORD
\* rows are scanned in the order the store returns them, so with several
\* matching rows any of them can be the one that decides.
_lookup_exception_rule(db_rules, carrier0, code, text) ==
    LET carrier == Upper(Strip(carrier0))
        text_u  == Upper(text)
        code_u  == Upper(code)
        codeRows == {r \in db_rules :
                        /\ r.carrier = carrier
                        /\ r.match_type = "CODE"
                        /\ r.match_value = code_u}
        codeHits == IF code_u = <<>> THEN {}
                    ELSE {[found |-> TRUE, category |-> r.category,
                           signal |-> [tier |-> "CODE:",
                                       value |-> r.match_value]] :
                             r \in {q \in codeRows : q.excusable}}
        \* the search goes on when the row returned is absent or not excusable
        goesOn == \/ code_u = <<>>
                  \/ codeRows = {}
                  \/ \E r \in codeRows : ~r.excusable
        kwRows == {r \in db_rules :
                      /\ r.carrier = carrier
                      /\ r.match_type = "KEYWORD"
                      /\ r.match_value # <<>>
                      /\ Contains(text_u, Upper(r.match_value))
                      /\ r.excusable}
        kwHits == {[found |-> TRUE, category |-> r.category,
                    signal |-> [tier |-> "KW:",
                                value |-> Upper(r.match_value)]] :
                      r \in kwRows}
    IN  codeHits \cup
        (IF ~goesOn THEN {}
         ELSE IF kwHits # {} THEN kwHits
         ELSE {FallbackHit(text_u)})

(***************************************************************************)
(* Eligibility decision (step 5 of ingest_and_audit).                      *)
(***************************************************************************)
AMBIGUOUS_TIME_WINDOW_MINUTES == 30

\* combined timezone assumption of the two confidences
TzAssumption(tz_confidence) ==
    IF tz_confidence = CONF_GIVEN THEN "SOURCE_TZ" ELSE "UTC_ASSUMED"

\* mutant of AmbiguousTime: the gate tests the wrong timezone assumption
AmbiguousTime_given_tz(tz_assumption, actual_utc, promised_utc) ==
    /\ tz_assumption = "SOURCE_TZ"
    /\ Abs(actual_utc - promised_utc) < AMBIGUOUS_TIME_WINDOW_MINUTES

\* mutant of AmbiguousTime: a distance of exactly the window is ambiguous
AmbiguousTime_inclusive(tz_assumption, actual_utc, promised_utc) ==
    /\ tz_assumption # "SOURCE_TZ"
    /\ Abs(actual_utc - promised_utc) <= AMBIGUOUS_TIME_WINDOW_MINUTES

AmbiguousTime(tz_assumption, actual_utc, promised_utc) ==
    /\ tz_assumption # "SOURCE_TZ"
    /\ Abs(actual_utc - promised_utc) < AMBIGUOUS_TIME_WINDOW_MINUTES

\* mutant of IsLate: equal timestamps count as late
IsLate_or_equal(actual_utc, promised_utc) == actual_utc >= promised_utc

IsLate(actual_utc, promised_utc) == actual_utc > promised_utc

\* mutant of Decide: the guarantee is tested before the exception
Decide_guarantee_first(ambiguous_time, is_late, is_guaranteed, exception_found, exception_category, total_charged) ==
    IF ambiguous_time
    THEN [is_eligible |-> FALSE,
          refundable_amount |-> 0,
          failure_reason |-> <<"Ambiguous delivery time (timezone)">>,
          rule_id |-> "RULE_TZ_AMBIGUOUS_FAIL_CLOSED"]
    ELSE LET is_eligible == is_late /\ is_guaranteed /\ ~exception_found
         IN  [is_eligible |-> is_eligible,
              refundable_amount |->
                  IF is_eligible THEN total_charged ELSE 0,
              failure_reason |->
                  IF ~is_guaranteed THEN <<"Non-guaranteed service">>
                  ELSE IF exception_found
                  THEN <<"Excusable Delay (", exception_category, ")">>
                  ELSE IF is_late THEN <<"Late Delivery (GSR)">>
                  ELSE <<>>,
              rule_id |->
                  IF ~is_guaranteed THEN "RULE_SERVICE_NOT_GUARANTEED"
                  ELSE IF exception_found THEN "RULE_EXCEPTION_RULES"
                  ELSE IF is_late THEN "RULE_LATE_DELIVERY"
                  ELSE "RULE_ON_TIME"]

\* mutant of Decide: the verdict forgets the exception
Decide_ignoring_exception(ambiguous_time, is_late, is_guaranteed, exception_found, exception_category, total_charged) ==
    IF ambiguous_time
    THEN [is_eligible |-> FALSE,
          refundable_amount |-> 0,
          failure_reason |-> <<"Ambiguous delivery time (timezone)">>,
          rule_id |-> "RULE_TZ_AMBIGUOUS_FAIL_CLOSED"]
    ELSE LET is_eligible == is_late /\ is_guaranteed
         IN  [is_eligible |-> is_eligible,
              refundable_amount |->
                  IF is_eligible THEN total_charged ELSE 0,
              failure_reason |->
                  IF exception_found
                  THEN <<"Excusable Delay (", exception_category, ")">>
                  ELSE IF ~is_guaranteed THEN <<"Non-guaranteed service">>
                  ELSE IF is_late THEN <<"Late Delivery (GSR)">>
                  ELSE <<>>,
              rule_id |->
                  IF exception_found THEN "RULE_EXCEPTION_RULES"
                  ELSE IF ~is_guaranteed THEN "RULE_SERVICE_NOT_GUARANTEED"
                  ELSE IF is_late THEN "RULE_LATE_DELIVERY"
                  ELSE "RULE_ON_TIME"]

\* mutant of Decide: the verdict forgets the lateness test
Decide_ignoring_lateness(ambiguous_time, is_late, is_guaranteed, exception_found, exception_category, total_charged) ==
    IF ambiguous_time
    THEN [is_eligible |-> FALSE,
          refundable_amount |-> 0,
          failure_reason |-> <<"Ambiguous delivery time (timezone)">>,
          rule_id |-> "RULE_TZ_AMBIGUOUS_FAIL_CLOSED"]
    ELSE LET is_eligible == is_guaranteed /\ ~exception_found
         IN  [is_eligible |-> is_eligible,
              refundable_amount |->
                  IF is_eligible THEN total_charged ELSE 0,
              failure_reason |->
                  IF exception_found
                  THEN <<"Excusable Delay (", exception_category, ")">>
                  ELSE IF ~is_guaranteed THEN <<"Non-guaranteed service">>
                  ELSE IF is_late THEN <<"Late Delivery (GSR)">>
                  ELSE <<>>,
              rule_id |->
                  IF exception_found THEN "RULE_EXCEPTION_RULES"
                  ELSE IF ~is_guaranteed THEN "RULE_SERVICE_NOT_GUARANTEED"
                  ELSE IF is_late THEN "RULE_LATE_DELIVERY"
                  ELSE "RULE_ON_TIME"]

\* mutant of Decide: the charge is refunded whatever the verdict
Decide_refund_regardless(ambiguous_time, is_late, is_guaranteed, exception_found, exception_category, total_charged) ==
    IF ambiguous_time
    THEN [is_eligible |-> FALSE,
          refundable_amount |-> 0,
          failure_reason |-> <<"Ambiguous delivery time (timezone)">>,
          rule_id |-> "RULE_TZ_AMBIGUOUS_FAIL_CLOSED"]
    ELSE LET is_eligible == is_late /\ is_guaranteed /\ ~exception_found
         IN  [is_eligible |-> is_eligible,
              refundable_amount |-> total_charged,
              failure_reason |->
                  IF exception_found
                  THEN <<"Excusable Delay (", exception_category, ")">>
                  ELSE IF ~is_guaranteed THEN <<"Non-guaranteed service">>
                  ELSE IF is_late THEN <<"Late Delivery (GSR)">>
                  ELSE <<>>,
              rule_id |->
                  IF exception_found THEN "RULE_EXCEPTION_RULES"
                  ELSE IF ~is_guaranteed THEN "RULE_SERVICE_NOT_GUARANTEED"
                  ELSE IF is_late THEN "RULE_LATE_DELIVERY"
                  ELSE "RULE_ON_TIME"]

\* mutant of Decide: a ledger that holds a claim grants no further refund
Decide_once_per_ledger(ambiguous_time, is_late, is_guaranteed, exception_found, exception_category, total_charged) ==
    IF ambiguous_time
    THEN [is_eligible |-> FALSE,
          refundable_amount |-> 0,
          failure_reason |-> <<"Ambiguous delivery time (timezone)">>,
          rule_id |-> "RULE_TZ_AMBIGUOUS_FAIL_CLOSED"]
    ELSE LET is_eligible == /\ is_late /\ is_guaranteed /\ ~exception_found
                            /\ claims = {}
         IN  [is_eligible |-> is_eligible,
              refundable_amount |->
                  IF is_eligible THEN total_charged ELSE 0,
              failure_reason |->
                  IF exception_found
                  THEN <<"Excusable Delay (", exception_category, ")">>
                  ELSE IF ~is_guaranteed THEN <<"Non-guaranteed service">>
                  ELSE IF is_late THEN <<"Late Delivery (GSR)">>
                  ELSE <<>>,
              rule_id |->
                  IF exception_found THEN "RULE_EXCEPTION_RULES"
                  ELSE IF ~is_guaranteed THEN "RULE_SERVICE_NOT_GUARANTEED"
                  ELSE IF is_late THEN "RULE_LATE_DELIVERY"
                  ELSE "RULE_ON_TIME"]

Decide(ambiguous_time, is_late, is_guaranteed, exception_found, exception_category, total_charged) ==
    IF ambiguous_time
    THEN [is_eligible |-> FALSE,
          refundable_amount |-> 0,
          failure_reason |-> <<"Ambiguous delivery time (timezone)">>,
          rule_id |-> "RULE_TZ_AMBIGUOUS_FAIL_CLOSED"]
    ELSE LET is_eligible == is_late /\ is_guaranteed /\ ~exception_found
         IN  [is_eligible |-> is_eligible,
              refundable_amount |->
                  IF is_eligible THEN total_charged ELSE 0,
              failure_reason |->
                  IF exception_found
                  THEN <<"Excusable Delay (", exception_category, ")">>
                  ELSE IF ~is_guaranteed THEN <<"Non-guaranteed service">>
                  ELSE IF is_late THEN <<"Late Delivery (GSR)">>
                  ELSE <<>>,
              rule_id |->
                  IF exception_found THEN "RULE_EXCEPTION_RULES"
                  ELSE IF ~is_guaranteed THEN "RULE_SERVICE_NOT_GUARANTEED"
                  ELSE IF is_late THEN "RULE_LATE_DELIVERY"
                  ELSE "RULE_ON_TIME"]

(***************************************************************************)
(* Store primitives (Supabase tables as sets of rows).                     *)
(***************************************************************************)
\* the row with the columns of `payload` overwritten (update(...).eq("id", .))
Merge(row, payload) ==
    [k \in DOMAIN row |-> IF k \in DOMAIN payload THEN payload[k] ELSE row[k]]

\* the id the store gives to the next inserted row
NewId(tbl) == Cardinality(tbl) + 1

\* result of a lookup that finds nothing (_get_single of an empty rowset)
NoRow == [id |-> NULL]

\* _get_single(resp.data) of a limit(1) query: any matching row, the store
\* fixes no order; NoRow when nothing matches
GetSingle(rows) == IF rows = {} THEN {NoRow} ELSE rows

_get_shipment_by_natural_key(tbl, carrier, tracking_number) ==
    GetSingle({r \in tbl : r.carrier = carrier
                           /\ r.tracking_number = tracking_number})

_get_audit_by_shipment_id(tbl, shipment_id) ==
    GetSingle({r \in tbl : r.shipment_id = shipment_id})

\* mutant of _get_claim_by_shipment_id: only claims that left DRAFT are found
_get_claim_by_shipment_id_submitted_only(tbl, shipment_id) ==
    GetSingle({r \in tbl : r.shipment_id = shipment_id
                           /\ r.status # "DRAFT"})

_get_claim_by_shipment_id(tbl, shipment_id) ==
    GetSingle({r \in tbl : r.shipment_id = shipment_id})

\* update(payload).eq("id", id): the table after the update, and the row
\* of that id as the table holds it
UpdateById(tbl, id, payload) ==
    {IF r.id = id THEN Merge(r, payload) ELSE r : r \in tbl}
RowById(tbl, id) == CHOOSE r \in tbl : r.id = id

\* the rows of a shipment (.eq("shipment_id", shipment_id)), the ids of rows
ClaimsOf(tbl, shipment_id) == {c \in tbl : c.shipment_id = shipment_id}
AuditsOf(tbl, shipment_id) == {a \in tbl : a.shipment_id = shipment_id}
Ids(tbl) == {r.id : r \in tbl}

\* mutant of _upsert_shipment: the lookup result is ignored, always insert
_upsert_shipment_always_insert(tbl, existing, carrier, tracking_number, fields) ==
    LET row == [carrier |-> carrier, tracking_number |-> tracking_number]
                   @@ fields @@ [id |-> NewId(tbl)]
    IN  [tbl |-> tbl \cup {row}, row |-> row]

\* [tbl, row]: the table after the upsert and the row it returns
_upsert_shipment(tbl, existing, carrier, tracking_number, fields) ==
    LET payload == [carrier |-> carrier,
                    tracking_number |-> tracking_number] @@ fields
    IN  IF existing.id # NULL
        THEN [tbl |-> UpdateById(tbl, existing.id, payload),
              row |-> Merge(RowById(tbl, existing.id), payload)]
        ELSE LET row == payload @@ [id |-> NewId(tbl)]
             IN  [tbl |-> tbl \cup {row}, row |-> row]

\* mutant of _upsert_audit_result: the lookup result is ignored, always insert
_upsert_audit_result_always_insert(tbl, existing, shipment_id, fields) ==
    LET row == [shipment_id |-> shipment_id] @@ fields
                   @@ [id |-> NewId(tbl)]
    IN  [tbl |-> tbl \cup {row}, row |-> row]

\* mutant of _upsert_audit_result: the payload does not carry the shipment_id
_upsert_audit_result_unlinked(tbl, existing, shipment_id, fields) ==
    IF existing.id # NULL
    THEN [tbl |-> UpdateById(tbl, existing.id, fields),
          row |-> Merge(RowById(tbl, existing.id), fields)]
    ELSE LET row == fields @@ [id |-> NewId(tbl), shipment_id |-> NULL]
         IN  [tbl |-> tbl \cup {row}, row |-> row]

_upsert_audit_result(tbl, existing, shipment_id, fields) ==
    LET payload == [shipment_id |-> shipment_id] @@ fields
    IN  IF existing.id # NULL
        THEN [tbl |-> UpdateById(tbl, existing.id, payload),
              row |-> Merge(RowById(tbl, existing.id), payload)]
        ELSE LET row == payload @@ [id |-> NewId(tbl)]
             IN  [tbl |-> tbl \cup {row}, row |-> row]

\* columns of a claims row that an insert leaves to the store's default
ClaimDefaults ==
    [audit_id |-> NULL, created_at |-> NULL, submitted_at |-> NULL,
     settled_at |-> NULL, carrier_case_number |-> <<>>,
     recovery_amount |-> NULL]

\* mutant of _upsert_claim: the lookup result is ignored, always insert
_upsert_claim_always_insert(tbl, existing, shipment_id, audit_id, fields) ==
    LET row == [shipment_id |-> shipment_id, audit_id |-> audit_id]
                   @@ fields @@ [id |-> NewId(tbl)] @@ ClaimDefaults
    IN  [tbl |-> tbl \cup {row}, row |-> row]

\* mutant of _upsert_claim: the payload does not carry the audit_id
_upsert_claim_without_audit(tbl, existing, shipment_id, audit_id, fields) ==
    LET payload == [shipment_id |-> shipment_id] @@ fields
    IN  IF existing.id # NULL
        THEN [tbl |-> UpdateById(tbl, existing.id, payload),
              row |-> Merge(RowById(tbl, existing.id), payload)]
        ELSE LET row == payload @@ [id |-> NewId(tbl)] @@ ClaimDefaults
             IN  [tbl |-> tbl \cup {row}, row |-> row]

_upsert_claim(tbl, existing, shipment_id, audit_id, fields) ==
    LET payload == [shipment_id |-> shipment_id,
                    audit_id |-> audit_id] @@ fields
    IN  IF existing.id # NULL
        THEN [tbl |-> UpdateById(tbl, existing.id, payload),
              row |-> Merge(RowById(tbl, existing.id), payload)]
        ELSE LET row == payload @@ [id |-> NewId(tbl)] @@ ClaimDefaults
             IN  [tbl |-> tbl \cup {row}, row |-> row]

\* update(payload).eq("id", cid) on the claims table
UpdateClaimById(tbl, cid, payload) ==
    {IF r.id = cid THEN Merge(r, payload) ELSE r : r \in tbl}

\* The wall clock advances by one tick between two calls: the first reading
\* datetime.now() gives to a call that follows reading n.
Readings(n) == {t \in {n + 1} : t <= MaxClock}

\* a later reading in the same call, after reading t
LaterReadings(t) == {u \in t..(t + 1) : u <= MaxClock}

(***************************************************************************)
(* Inputs.                                                                 *)
(***************************************************************************)
Naive(t) == [t |-> t, aware |-> FALSE, off |-> 0]
Aware(t, off) == [t |-> t, aware |-> TRUE, off |-> off]

C_FedEx == <<"F","e","d","E","x">>
C_UPS == <<"U","P","S">>
T_1 == <<"T","1">>
T_1_padded == <<" ","T","1"," ">>
SVC_priority == <<" ","p","r","i","o","r","i","t","y"," "," ","o","v","e","r","n","i","g","h","t">>
SVC_PRIORITY_OVERNIGHT == <<"P","R","I","O","R","I","T","Y"," ","O","V","E","R","N","I","G","H","T">>
SVC_Ground == <<"G","r","o","u","n","d">>
SVC_GROUND == <<"G","R","O","U","N","D">>
SVC_NEXT_DAY_AIR == <<"N","E","X","T"," ","D","A","Y"," ","A","I","R">>

\* a ShipmentIngest record (app/schemas.py)
ShipmentIngest(trk, car, svc, total, promised, delivered) ==
    [tracking_number |-> trk, carrier |-> car, service_type |-> svc,
     total_charged |-> total, contract_rate |-> 10000,
     shipped_at |-> Naive(0), promised_delivery |-> promised,
     delivery_ts |-> delivered, raw_metadata |-> <<>>]

\* promised 10:30 UTC, given with a -05:00 offset or naive
PromisedAware == Aware(330, -300)
PromisedNaive == Naive(630)

\* FedEx T1: late on a guaranteed service (two charges, two spellings of
\* the tracking number), and 20 minutes late on naive timestamps.
\* UPS T1: delivered before the promise.
Payloads ==
    { ShipmentIngest(T_1_padded, C_FedEx, SVC_priority, 12550,
                     PromisedAware, Aware(555, -300)),
      ShipmentIngest(T_1, C_FedEx, SVC_priority, 4000,
                     PromisedAware, Aware(555, -300)),
      ShipmentIngest(T_1, C_FedEx, SVC_priority, 12550,
                     PromisedNaive, Naive(650)),
      ShipmentIngest(T_1, C_UPS, SVC_NEXT_DAY_AIR, 12550,
                     PromisedNaive, Naive(600)) }

ST_Delivered == <<"D","e","l","i","v","e","r","e","d">>
ST_Weather_delay == <<"W","e","a","t","h","e","r"," ","d","e","l","a","y">>
KW_weather == <<"w","e","a","t","h","e","r">>

NoTimestamp == [kind |-> "none", dt |-> Naive(0)]
IsoTimestamp(dt) == [kind |-> "iso", dt |-> dt]
BadTimestamp == [kind |-> "bad", dt |-> Naive(0)]

\* FedExService.track: None, or a dict with these keys
FedExAnswer(trk, status, code, ts) ==
    [present |-> TRUE,
     data |-> [tracking_number |-> trk, carrier |-> S_FEDEX,
               status |-> status, code |-> code, timestamp |-> ts]]

\* UPSService.track: None, or a dict with these keys
UPSAnswer(trk, status, ts) ==
    [present |-> TRUE,
     data |-> [tracking_number |-> trk, carrier |-> S_UPS,
               status |-> status, timestamp |-> ts]]

LiveNone == [present |-> FALSE, data |-> <<>>]

\* answers of the tracking adapter of a carrier for a tracking number
LiveAnswers(carrier, trk) ==
    IF carrier = S_FEDEX
    THEN {LiveNone,
          FedExAnswer(trk, ST_Weather_delay, <<"D","E">>,
                      IsoTimestamp(Aware(600, -300)))}
    ELSE {LiveNone,
          UPSAnswer(trk, ST_Weather_delay, IsoTimestamp(Naive(700)))}

\* dict.get(key, "") on the adapter's answer; None and "" are both <<>>
LiveGet(live, key) ==
    IF live.present /\ key \in DOMAIN live.data THEN live.data[key]
    ELSE <<>>

\* live_data.get("timestamp")
LiveTimestamp(live) ==
    IF live.present /\ "timestamp" \in DOMAIN live.data
    THEN live.data["timestamp"] ELSE NoTimestamp

\* the delivery time the audit uses: the parsed live timestamp when there
\* is one and dateutil parses it, else the caller's delivery_ts
ActualDt(shipment, live) ==
    LET ts == LiveTimestamp(live)
    IN  IF ts.kind = "iso" THEN ts.dt ELSE shipment.delivery_ts

(***************************************************************************)
(* Reference data.                                                         *)
(***************************************************************************)
CommitmentTables ==
    { { [carrier |-> S_FEDEX, service_type |-> SVC_PRIORITY_OVERNIGHT,
         guaranteed |-> TRUE, valid_from |-> 2, valid_to |-> NULL],
        [carrier |-> S_FEDEX, service_type |-> SVC_PRIORITY_OVERNIGHT,
         guaranteed |-> FALSE, valid_from |-> 1, valid_to |-> 2],
        [carrier |-> S_FEDEX, service_type |-> SVC_GROUND,
         guaranteed |-> FALSE, valid_from |-> 1, valid_to |-> NULL],
        [carrier |-> S_UPS, service_type |-> SVC_NEXT_DAY_AIR,
         guaranteed |-> FALSE, valid_from |-> 1, valid_to |-> NULL],
        [carrier |-> S_UPS, service_type |-> SVC_NEXT_DAY_AIR,
         guaranteed |-> TRUE, valid_from |-> 3, valid_to |-> NULL] } }

ExceptionRuleTables ==
    { { [carrier |-> S_FEDEX, match_type |-> "KEYWORD",
         match_value |-> KW_weather, excusable |-> TRUE,
         category |-> "WEATHER"],
        [carrier |-> S_FEDEX, match_type |-> "CODE",
         match_value |-> <<"D","E">>, excusable |-> TRUE,
         category |-> "DELAY"] } }

(***************************************************************************)
(* ingest_and_audit.                                                       *)
(***************************************************************************)
\* mutant of CanonicalInputs: without live data the text of the payload is
\* given to the resolver
CanonicalInputs_text_from_payload(shipment, live) ==
    LET actual_dt == ActualDt(shipment, live)
        promised == _to_utc_with_assumption(shipment.promised_delivery)
        actual == _to_utc_with_assumption(actual_dt)
        tz_confidence == Min(promised.conf, actual.conf)
        tz_assumption == TzAssumption(tz_confidence)
    IN  [carrier |-> _normalize_carrier(shipment.carrier),
         tracking |-> Strip(shipment.tracking_number),
         service_norm |-> _normalize_service_type(shipment.service_type),
         live_exception_code |-> LiveGet(live, "exception_code"),
         live_exception_text |->
             IF live.present
             THEN LiveGet(live, "status") \o <<" ">>
                      \o LiveGet(live, "description")
             ELSE shipment.service_type \o <<" ">> \o shipment.raw_metadata,
         promised_utc |-> promised.utc,
         actual_utc |-> actual.utc,
         tz_confidence |-> tz_confidence,
         tz_assumption |-> tz_assumption,
         ambiguous_time |-> AmbiguousTime(tz_assumption, actual.utc,
                                          promised.utc),
         is_late |-> IsLate(actual.utc, promised.utc)]

\* steps 0-2 of the handler: canonical inputs, live override of the
\* delivery time, time normalization and the ambiguity gate
CanonicalInputs(shipment, live) ==
    LET actual_dt == ActualDt(shipment, live)
        promised == _to_utc_with_assumption(shipment.promised_delivery)
        actual == _to_utc_with_assumption(actual_dt)
        tz_confidence == Min(promised.conf, actual.conf)
        tz_assumption == TzAssumption(tz_confidence)
    IN  [carrier |-> _normalize_carrier(shipment.carrier),
         tracking |-> Strip(shipment.tracking_number),
         service_norm |-> _normalize_service_type(shipment.service_type),
         live_exception_code |-> LiveGet(live, "exception_code"),
         live_exception_text |->
             LiveGet(live, "status") \o <<" ">>
                 \o LiveGet(live, "description"),
         promised_utc |-> promised.utc,
         actual_utc |-> actual.utc,
         tz_confidence |-> tz_confidence,
         tz_assumption |-> tz_assumption,
         ambiguous_time |-> AmbiguousTime(tz_assumption, actual.utc,
                                          promised.utc),
         is_late |-> IsLate(actual.utc, promised.utc)]

\* step 6: the columns written to the shipments row
ShipFields(shipment, c) ==
    [service_type |-> IF c.service_norm # <<>> THEN c.service_norm
                      ELSE shipment.service_type,
     shipped_at |-> _to_utc_with_assumption(shipment.shipped_at).utc,
     promised_delivery |-> c.promised_utc,
     actual_delivery |-> c.actual_utc,
     total_charged |-> shipment.total_charged,
     weight_lbs |-> NULL,
     raw_json_data |-> shipment]

\* step 7: the columns written to the audit_results row
AuditFields(c, d, exc, t_audit) ==
    [is_eligible |-> d.is_eligible,
     variance_amount |-> d.refundable_amount,
     failure_reason |-> d.failure_reason,
     rule_id |-> d.rule_id,
     audited_at |-> t_audit,
     timezone_assumption |-> c.tz_assumption,
     timezone_confidence |-> c.tz_confidence,
     exception_category |-> exc.category,
     exception_signal |-> exc.signal]

\* step 8: the columns written to the claims row
ClaimFields(d, t_claim) ==
    [status |-> "DRAFT",
     claim_amount |-> d.refundable_amount,
     reason |-> IF d.failure_reason # <<>> THEN d.failure_reason
                ELSE <<"Late Delivery (GSR)">>,
     created_at |-> t_claim]

\* mutant of ClaimStatus: the response reports a draft whatever the verdict
ClaimStatus_always_draft(is_eligible) == "DRAFT"

\* step 8: claim_status of the response
ClaimStatus(is_eligible) == IF is_eligible THEN "DRAFT" ELSE "SKIPPED"

\* mutant of ClaimWrite: the claim is upserted whatever the verdict
ClaimWrite_unconditional(is_eligible, tbl, uc) == uc.tbl

\* step 8: the claims table after the call; uc is the result of _upsert_claim
ClaimWrite(is_eligible, tbl, uc) == IF is_eligible THEN uc.tbl ELSE tbl

\* Validation of the request body against ShipmentIngest, which FastAPI
\* runs before the handler: carrier matches ^(FedEx|UPS)$, the three
\* datetimes are present, total_charged and contract_rate are positive
ValidShipmentIngest(shipment) ==
    /\ shipment.carrier \in {<<"F","e","d","E","x">>, <<"U","P","S">>}
    /\ shipment.shipped_at # NoneDt
    /\ shipment.promised_delivery # NoneDt
    /\ shipment.delivery_ts # NoneDt
    /\ shipment.total_charged > 0
    /\ shipment.contract_rate > 0

\* mutant of IngestError: no test of the carrier, in the schema or in step 0
IngestError_carrier_unchecked(shipment, live) ==
    IF \/ shipment.shipped_at = NoneDt
       \/ shipment.promised_delivery = NoneDt
       \/ shipment.delivery_ts = NoneDt
       \/ shipment.total_charged <= 0
       \/ shipment.contract_rate <= 0
    THEN 422
    ELSE 0

\* The HTTP status of the error that ends the call before step 3, 0 when
\* there is none: 422 from the validation of the body, 400 from the carrier
\* test of step 0, 500 from a ValueError of _to_utc_with_assumption (or the
\* AttributeError of shipped_at in step 6, before the first write).
IngestError(shipment, live) ==
    IF ~ValidShipmentIngest(shipment) THEN 422
    ELSE IF _normalize_carrier(shipment.carrier) \notin {S_FEDEX, S_UPS}
    THEN 400
    ELSE IF \/ _to_utc_with_assumption(shipment.promised_delivery).raise
            \/ _to_utc_with_assumption(ActualDt(shipment, live)).raise
            \/ shipment.shipped_at = NoneDt
    THEN 500
    ELSE 0

\* a call of POST /ingest/shipment that ends in an error response
IngestRejected(shipment, live) ==
    /\ IngestError(shipment, live) # 0
    /\ last' = [op |-> "ingest_rejected", shipment |-> shipment,
                live |-> live,
                status_code |-> IngestError(shipment, live)]
    /\ UNCHANGED <<shipments, audit_results, claims, service_commitments,
                   exception_rules, now, decided, inflight, calls>>

\* One call of POST /ingest/shipment with the answer `live` of the tracking
\* adapter; t_audit and t_claim are the two readings of datetime.now().
\* (\E x \in {e} binds the value of a local of the handler.)
IngestAndAudit(shipment, live, t_audit, t_claim) ==
    \E c \in {CanonicalInputs(shipment, live)} :
    /\ IngestError(shipment, live) = 0
    /\ \E is_guaranteed \in
              _is_service_guaranteed(service_commitments, c.carrier,
                                     c.service_norm),
          exc \in _lookup_exception_rule(exception_rules, c.carrier,
                                         c.live_exception_code,
                                         c.live_exception_text) :
       \E d \in {Decide(c.ambiguous_time, c.is_late, is_guaranteed,
                        exc.found, exc.category, shipment.total_charged)} :
       \E exS \in _get_shipment_by_natural_key(shipments, c.carrier,
                                               c.tracking) :
       \E us \in {_upsert_shipment(shipments, exS, c.carrier, c.tracking,
                                   ShipFields(shipment, c))} :
       \E exA \in _get_audit_by_shipment_id(audit_results, us.row.id) :
       \E ua \in {_upsert_audit_result(audit_results, exA, us.row.id,
                                       AuditFields(c, d, exc, t_audit))} :
       \E exC \in _get_claim_by_shipment_id(claims, us.row.id) :
       \E uc \in {_upsert_claim(claims, exC, us.row.id, ua.row.id,
                                ClaimFields(d, t_claim))} :
          /\ d.is_eligible /\ exC.id = NULL
                => Cardinality(claims) < MaxClaims
          /\ shipments' = us.tbl
          /\ audit_results' = ua.tbl
          /\ claims' = ClaimWrite(d.is_eligible, claims, uc)
          /\ now' = IF d.is_eligible THEN t_claim ELSE t_audit
          /\ last' =
               [op |-> "ingest", shipment |-> shipment, live |-> live,
                carrier |-> c.carrier, tracking |-> c.tracking,
                promised_utc |-> c.promised_utc,
                actual_utc |-> c.actual_utc,
                tz_confidence |-> c.tz_confidence,
                tz_assumption |-> c.tz_assumption,
                ambiguous_time |-> c.ambiguous_time,
                is_late |-> c.is_late, is_guaranteed |-> is_guaranteed,
                exception |-> exc,
                is_eligible |-> d.is_eligible,
                refundable_amount |-> d.refundable_amount,
                failure_reason |-> d.failure_reason,
                rule_id |-> d.rule_id,
                shipment_id |-> us.row.id, audit_id |-> ua.row.id,
                claim_id |-> IF d.is_eligible THEN uc.row.id ELSE NULL,
                shipment_before |-> exS, audit_before |-> exA,
                t_audit |-> t_audit,
                claim_before |-> IF d.is_eligible THEN exC ELSE NoRow,
                repeat |-> /\ last.op = "ingest"
                           /\ last.shipment = shipment
                           /\ last.live = live
                           /\ last.is_guaranteed = is_guaranteed
                           /\ last.exception = exc,
                response |->
                    [status |-> "success",
                     tracking_number |-> c.tracking,
                     leakage_found |-> d.refundable_amount,
                     claim_status |-> ClaimStatus(d.is_eligible)]]
          /\ UNCHANGED <<service_commitments, exception_rules, inflight, calls>>

Ingest ==
    /\ \E shipment \in Payloads :
         \E live \in LiveAnswers(_normalize_carrier(shipment.carrier),
                                 Strip(shipment.tracking_number)) :
           \E t_audit \in Readings(now) :
             \E t_claim \in LaterReadings(t_audit) :
               IngestAndAudit(shipment, live, t_audit, t_claim)
    /\ UNCHANGED decided

(***************************************************************************)
(* promote_claims.py (module body).                                        *)
(***************************************************************************)
RECURSIVE InsertPromoted(_, _)
\* the claims table after one insert per audit result of `items`
InsertPromoted(tbl, items) ==
    IF items = {} THEN tbl
    ELSE LET item == CHOOSE a \in items : \A b \in items : a.id <= b.id
             row == [id |-> NewId(tbl),
                     shipment_id |-> item.shipment_id,
                     claim_amount |-> item.variance_amount,
                     status |-> "DRAFT",
                     reason |-> item.failure_reason] @@ ClaimDefaults
         IN  InsertPromoted(tbl \cup {row}, items \ {item})

PromoteClaims ==
    LET eligible == {a \in audit_results : a.is_eligible}
    IN  /\ Cardinality(claims) + Cardinality(eligible) <= MaxClaims
        /\ \E t \in Readings(now) : now' = t
        /\ claims' = InsertPromoted(claims, eligible)
        /\ last' = [op |-> "promote_claims"]
        /\ UNCHANGED <<shipments, audit_results, service_commitments,
                       exception_rules, decided, inflight, calls>>

(***************************************************************************)
(* carrier_alpha.py: mark_claims_submitted and reconcile_claim.            *)
(***************************************************************************)
RECURSIVE UpdateAll(_, _, _)
\* one update by id per element of claim_ids, each with payload[id]
UpdateAll(tbl, claim_ids, payload) ==
    IF claim_ids = {} THEN tbl
    ELSE LET cid == CHOOSE c \in claim_ids : TRUE
         IN  UpdateAll(UpdateClaimById(tbl, cid, payload[cid]),
                       claim_ids \ {cid}, payload)

mark_claims_submitted(tbl, claim_ids, now_iso) ==
    UpdateAll(tbl, claim_ids,
              [cid \in claim_ids |->
                  [status |-> "SUBMITTED", submitted_at |-> now_iso]])

\* the "Mark exported DRAFT claims as SUBMITTED" button: the script run
\* loads the view, takes the claim ids of its DRAFT rows and marks them
MarkClaimsSubmitted ==
    LET draft_df == {c \in claims : c.status = "DRAFT"}
        claim_ids == {c.id : c \in draft_df}
    IN  /\ draft_df # {}
        /\ \E now_iso \in Readings(now) :
             /\ claims' = mark_claims_submitted(claims, claim_ids, now_iso)
             /\ now' = now_iso
             /\ last' = [op |-> "mark_claims_submitted"]
        /\ UNCHANGED <<shipments, audit_results, service_commitments,
                       exception_rules, decided, inflight, calls>>

\* arguments (status, carrier_case_number, recovery_amount) of the calls
ReconcileCalls ==
    { <<"DISPUTED", <<>>, NULL>>,
      <<"RECOVERED", <<>>, NULL>>,
      <<"RECOVERED", <<" ","K","7">>, 5000>>,
      <<"DENIED", <<>>, NULL>> }

\* mutant of ReconcilePayload: RECOVERED is written without an amount
ReconcilePayload_amount_optional(status, carrier_case_number, recovery_amount, now_iso) ==
    IF status \notin {"RECOVERED", "DENIED"}
    THEN [raise |-> TRUE, error |-> "Invalid reconciliation status"]
    ELSE [raise |-> FALSE, error |-> NoneStr,
          status |-> status, settled_at |-> now_iso]
         @@ (IF carrier_case_number # <<>>
             THEN [carrier_case_number |-> Strip(carrier_case_number)]
             ELSE <<>>)
         @@ (IF status = "RECOVERED" /\ recovery_amount # NULL
             THEN [recovery_amount |-> recovery_amount]
             ELSE <<>>)

\* the ValueError the call raises (raise, with its message), else the
\* update payload
ReconcilePayload(status, carrier_case_number, recovery_amount, now_iso) ==
    IF status \notin {"RECOVERED", "DENIED"}
    THEN [raise |-> TRUE, error |-> "Invalid reconciliation status"]
    ELSE IF status = "RECOVERED" /\ recovery_amount = NULL
    THEN [raise |-> TRUE,
          error |-> "Recovered Amount is required for RECOVERED"]
    ELSE [raise |-> FALSE, error |-> NoneStr,
          status |-> status, settled_at |-> now_iso]
         @@ (IF carrier_case_number # <<>>
             THEN [carrier_case_number |-> Strip(carrier_case_number)]
             ELSE <<>>)
         @@ (IF status = "RECOVERED"
             THEN [recovery_amount |-> recovery_amount]
             ELSE <<>>)

reconcile_claim(claim_id, status, carrier_case_number, recovery_amount) ==
    \E now_iso \in Readings(now) :
      LET payload == ReconcilePayload(status, carrier_case_number,
                                      recovery_amount, now_iso)
      IN  /\ claims' = IF payload.raise THEN claims
                       ELSE UpdateClaimById(claims, claim_id, payload)
          /\ now' = now_iso
          /\ last' = [op |-> "reconcile_claim", claim_id |-> claim_id,
                      status |-> status,
                      carrier_case_number |-> carrier_case_number,
                      recovery_amount |-> recovery_amount,
                      raised |-> payload.raise, error |-> payload.error]
          /\ UNCHANGED <<shipments, audit_results, service_commitments,
                         exception_rules, decided, inflight, calls>>

ReconcileClaim ==
    \E claim_id \in 1..MaxClaims, call \in ReconcileCalls :
        reconcile_claim(claim_id, call[1], call[2], call[3])

(***************************************************************************)
(* execute_claims.py: execute_batch.                                       *)
(***************************************************************************)
ExecuteBatch ==
    LET claims_data == {c \in claims : c.status = "DRAFT"}
        ids_to_update ==
            {c.id : c \in {c \in claims_data :
                /\ \E sh \in shipments : sh.id = c.shipment_id
                /\ \E a \in audit_results : a.id = c.audit_id}}
    IN  /\ \E t \in Readings(now) :
             \E stamp \in [ids_to_update -> LaterReadings(t)] :
               /\ claims' =
                    UpdateAll(claims, ids_to_update,
                              [cid \in ids_to_update |->
                                  [status |-> "SUBMITTED",
                                   submitted_at |-> stamp[cid]]])
               /\ now' = IF \E cid \in ids_to_update : stamp[cid] > t
                         THEN t + 1 ELSE t
        /\ last' = [op |-> "execute_batch"]
        /\ UNCHANGED <<shipments, audit_results, service_commitments,
                       exception_rules, decided, inflight, calls>>

\* a submission run that is not between its read and its writes
Idle == [running |-> FALSE, claim_ids |-> {}, now_iso |-> NULL]

\* neither the dashboard nor execute_batch is between read and writes
NoRuns == [ui |-> Idle, batch |-> Idle]

\* the calls of ingest_and_audit, numbered as they begin
CallIds == 1..MaxCalls

\* a call that has not begun
NoCall ==
    [pc |-> "idle", shipment |-> <<>>, d |-> <<>>, exc |-> NoException,
     alone |-> FALSE, exS |-> NoRow, exA |-> NoRow, exC |-> NoRow,
     shipment_id |-> NULL, audit_id |-> NULL, t_audit |-> NULL,
     t_claim |-> NULL, status_code |-> 0, stopped_at |-> "idle"]

NoCalls == [i \in CallIds |-> NoCall]

(***************************************************************************)
(* Specification of the ledger: any sequence of the operations.            *)
(***************************************************************************)
Init ==
    /\ shipments = {}
    /\ audit_results = {}
    /\ claims = {}
    /\ service_commitments \in CommitmentTables
    /\ exception_rules \in ExceptionRuleTables
    /\ now = 0
    /\ last = [op |-> "init"]
    /\ decided = {}
    /\ inflight = NoRuns
    /\ calls = NoCalls

Next ==
    \/ Ingest
    \/ PromoteClaims
    \/ MarkClaimsSubmitted
    \/ ReconcileClaim
    \/ ExecuteBatch

Spec == Init /\ [][Next]_vars

(***************************************************************************)
(* Specification of the decision: one ingestion into an empty ledger, over *)
(* a wide range of payloads, tracking answers and reference tables.        *)
(***************************************************************************)
WideServiceTypes == {SVC_priority, SVC_Ground, SVC_NEXT_DAY_AIR, <<>>}
WideCharges == {12550, 4000}
WidePromised == {PromisedAware, PromisedNaive}
\* 10:00, 10:30, 10:50, 11:00 and 14:15 UTC, naive or with a -05:00 offset
WideDelivered ==
    {Naive(t) : t \in {600, 630, 650, 660, 855}}
        \cup {Aware(t - 300, -300) : t \in {600, 630, 650, 660, 855}}

\* payloads whose service_type and raw_metadata read like an exception
TextPayloads ==
    { [ShipmentIngest(T_1_padded, C_FedEx, svc, 12550,
                      PromisedAware, delivered)
          EXCEPT !.raw_metadata = ST_Weather_delay] :
        svc \in {SVC_priority, ST_Weather_delay},
        delivered \in {Aware(555, -300), Aware(300, -300)} }

WidePayloads ==
    { ShipmentIngest(T_1_padded, car, svc, total, promised, delivered) :
        car \in {C_FedEx, C_UPS}, svc \in WideServiceTypes,
        total \in WideCharges, promised \in WidePromised,
        delivered \in WideDelivered }
    \cup TextPayloads

ST_Strike == <<"S","t","r","i","k","e",":"," ","n","a","t","i","o","n","a","l"," ","e","m","e","r","g","e","n","c","y">>

WideLiveAnswers(carrier, trk) ==
    IF carrier = S_FEDEX
    THEN {LiveNone}
         \cup {FedExAnswer(trk, st, <<"D","E">>, ts) :
                 st \in {ST_Delivered, ST_Weather_delay, ST_Strike},
                 ts \in {BadTimestamp, IsoTimestamp(Naive(640)),
                         IsoTimestamp(Aware(600, -300))}}
    ELSE {LiveNone}
         \cup {UPSAnswer(trk, st, IsoTimestamp(Naive(t))) :
                 st \in {ST_Delivered, ST_Weather_delay},
                 t \in {640, 700}}

\* the table above, an empty table, and a table whose only FedEx rows are
\* expired (valid_to set) and whose expired UPS row is younger than the
\* current one
WideCommitmentTables ==
    CommitmentTables \cup
    { {},
      { [carrier |-> S_FEDEX, service_type |-> SVC_GROUND,
         guaranteed |-> TRUE, valid_from |-> 1, valid_to |-> 3],
        [carrier |-> S_FEDEX, service_type |-> SVC_PRIORITY_OVERNIGHT,
         guaranteed |-> TRUE, valid_from |-> 1, valid_to |-> 3],
        [carrier |-> S_UPS, service_type |-> SVC_NEXT_DAY_AIR,
         guaranteed |-> TRUE, valid_from |-> 1, valid_to |-> NULL],
        [carrier |-> S_UPS, service_type |-> SVC_NEXT_DAY_AIR,
         guaranteed |-> FALSE, valid_from |-> 2, valid_to |-> 3] } }

WideExceptionRuleTables ==
    ExceptionRuleTables \cup
    { {},
      { [carrier |-> S_FEDEX, match_type |-> "KEYWORD",
         match_value |-> KW_weather, excusable |-> FALSE,
         category |-> "WEATHER"],
        [carrier |-> S_UPS, match_type |-> "KEYWORD",
         match_value |-> KW_weather, excusable |-> TRUE,
         category |-> NoneStr] } }

InitDecide ==
    /\ shipments = {}
    /\ audit_results = {}
    /\ claims = {}
    /\ service_commitments \in WideCommitmentTables
    /\ exception_rules \in WideExceptionRuleTables
    /\ now = 0
    /\ last = [op |-> "init"]
    /\ decided = {}
    /\ inflight = NoRuns
    /\ calls = NoCalls

IngestFirst ==
    /\ shipments = {}
    /\ \E shipment \in WidePayloads :
         \E live \in WideLiveAnswers(_normalize_carrier(shipment.carrier),
                                     Strip(shipment.tracking_number)) :
           \E t_audit \in Readings(now) :
             \E t_claim \in LaterReadings(t_audit) :
               IngestAndAudit(shipment, live, t_audit, t_claim)
    /\ UNCHANGED decided

NextDecide == IngestFirst

SpecDecide == InitDecide /\ [][NextDecide]_vars

(***************************************************************************)
(* Specification of repeated audits: any sequence of ingestions, with the  *)
(* history of the evaluations of the decision.                             *)
(***************************************************************************)
\* the payloads of the ledger specification and a UPS shipment with the
\* times and the charge of the first FedEx payload
AuditPayloads ==
    Payloads \cup
    { ShipmentIngest(T_1, C_UPS, SVC_NEXT_DAY_AIR, 12550,
                     PromisedAware, Aware(555, -300)) }

\* One evaluation of step 5 by the call `call`: the values it decides on,
\* the values it wrote to the audit_results row `a` and returned, and the
\* sizes of the tables it found.
Evaluation(call, a, n_shipments, n_claims) ==
    [in |-> [promised_utc |-> call.promised_utc,
             actual_utc |-> call.actual_utc,
             promised_aware |-> call.shipment.promised_delivery.aware,
             actual_aware |-> ActualDt(call.shipment, call.live).aware,
             is_guaranteed |-> call.is_guaranteed,
             exception |-> call.exception,
             total_charged |-> call.shipment.total_charged],
     out |-> [is_eligible |-> a.is_eligible,
              variance_amount |-> a.variance_amount,
              failure_reason |-> a.failure_reason,
              rule_id |-> a.rule_id,
              leakage_found |-> call.response.leakage_found,
              claim_status |-> call.response.claim_status],
     prior |-> [shipments |-> n_shipments, claims |-> n_claims]]

IngestRecorded ==
    /\ \E shipment \in AuditPayloads :
         \E live \in LiveAnswers(_normalize_carrier(shipment.carrier),
                                 Strip(shipment.tracking_number)) :
           \E t_audit \in Readings(now) :
             \E t_claim \in LaterReadings(t_audit) :
               IngestAndAudit(shipment, live, t_audit, t_claim)
    /\ decided' = decided \cup
         {Evaluation(last', a, Cardinality(shipments), Cardinality(claims)) :
            a \in {r \in audit_results' : r.id = last'.audit_id}}

NextAudits == IngestRecorded

SpecAudits == Init /\ [][NextAudits]_vars

(***************************************************************************)
(* Specification of the submissions, statement by statement: the dashboard *)
(* run (load_truth_view, then mark_claims_submitted on the button) and     *)
(* execute_batch (select, then one update per claim), interleaved with     *)
(* each other, with reconcile_claim and with ingestions.                   *)
(***************************************************************************)
\* a late FedEx shipment and a late UPS shipment, both on guaranteed services
SubmissionPayloads ==
    { ShipmentIngest(T_1, C_FedEx, SVC_priority, 4000,
                     PromisedAware, Aware(555, -300)),
      ShipmentIngest(T_1, C_UPS, SVC_NEXT_DAY_AIR, 12550,
                     PromisedAware, Aware(555, -300)) }

IngestForSubmission ==
    /\ \E shipment \in SubmissionPayloads :
         \E t_audit \in Readings(now) :
           \E t_claim \in LaterReadings(t_audit) :
             IngestAndAudit(shipment, LiveNone, t_audit, t_claim)
    /\ UNCHANGED decided

\* a run of the dashboard script: df = load_truth_view() and draft_df, whose
\* claim ids the button will pass to mark_claims_submitted
UiLoad ==
    LET draft_df == {c \in claims : c.status = "DRAFT"}
    IN  /\ ~inflight.ui.running
        /\ draft_df # {}
        /\ inflight' = [inflight EXCEPT !.ui =
                           [running |-> TRUE,
                            claim_ids |-> {c.id : c \in draft_df},
                            now_iso |-> NULL]]
        /\ last' = [op |-> "load_truth_view"]
        /\ UNCHANGED <<shipments, audit_results, claims,
                       service_commitments, exception_rules, now, decided, calls>>

\* what is left of a run after the update of claim cid
AfterWrite(run, cid, now_iso) ==
    IF run.claim_ids = {cid} THEN Idle
    ELSE [running |-> TRUE, claim_ids |-> run.claim_ids \ {cid},
          now_iso |-> now_iso]

\* mark_claims_submitted(claim_ids): now_iso is read once, before the loop;
\* one step per iteration of the loop (the first one reads the clock)
UiWrite ==
    /\ inflight.ui.running
    /\ \E cid \in inflight.ui.claim_ids :
         \E now_iso \in (IF inflight.ui.now_iso = NULL THEN Readings(now)
                         ELSE {inflight.ui.now_iso}) :
           /\ claims' = UpdateClaimById(claims, cid,
                            [status |-> "SUBMITTED",
                             submitted_at |-> now_iso])
           /\ now' = now_iso
           /\ inflight' = [inflight EXCEPT !.ui =
                              AfterWrite(inflight.ui, cid, now_iso)]
           /\ last' = [op |-> "mark_claims_submitted", claim_id |-> cid]
    /\ UNCHANGED <<shipments, audit_results, service_commitments,
                   exception_rules, decided, calls>>

\* execute_batch, steps 1 and 2: the DRAFT claims are selected and those
\* whose shipment and audit rows are found go to ids_to_update
BatchLoad ==
    LET claims_data == {c \in claims : c.status = "DRAFT"}
        ids_to_update ==
            {c.id : c \in {c \in claims_data :
                /\ \E sh \in shipments : sh.id = c.shipment_id
                /\ \E a \in audit_results : a.id = c.audit_id}}
    IN  /\ ~inflight.batch.running
        /\ ids_to_update # {}
        /\ inflight' = [inflight EXCEPT !.batch =
                           [running |-> TRUE, claim_ids |-> ids_to_update,
                            now_iso |-> NULL]]
        /\ last' = [op |-> "execute_batch_select"]
        /\ UNCHANGED <<shipments, audit_results, claims,
                       service_commitments, exception_rules, now, decided, calls>>

\* execute_batch, step 4: one iteration of the update loop, which reads the
\* clock in every iteration
BatchWrite ==
    /\ inflight.batch.running
    /\ \E cid \in inflight.batch.claim_ids :
         \E t \in Readings(now) :
           /\ claims' = UpdateClaimById(claims, cid,
                            [status |-> "SUBMITTED", submitted_at |-> t])
           /\ now' = t
           /\ inflight' = [inflight EXCEPT !.batch =
                              AfterWrite(inflight.batch, cid, NULL)]
           /\ last' = [op |-> "execute_batch", claim_id |-> cid]
    /\ UNCHANGED <<shipments, audit_results, service_commitments,
                   exception_rules, decided, calls>>

NextSubmissions ==
    \/ IngestForSubmission
    \/ UiLoad
    \/ UiWrite
    \/ BatchLoad
    \/ BatchWrite
    \/ ReconcileClaim

SpecSubmissions == Init /\ [][NextSubmissions]_vars

(***************************************************************************)
(* Specification of the requests: ingestions that are accepted and         *)
(* requests that end in an error response.                                 *)
(***************************************************************************)
C_DHL == <<"D","H","L">>
C_fedex == <<" ","f","e","d","e","x">>

\* request bodies with an unsupported carrier, with a carrier spelling the
\* handler would normalize but the schema refuses, and with null timestamps
RejectedPayloads ==
    { ShipmentIngest(T_1, C_DHL, SVC_priority, 4000,
                     PromisedAware, Aware(555, -300)),
      ShipmentIngest(T_1, C_fedex, SVC_priority, 4000,
                     PromisedAware, Aware(555, -300)),
      ShipmentIngest(T_1, C_FedEx, SVC_priority, 4000,
                     NoneDt, Aware(555, -300)),
      ShipmentIngest(T_1, C_FedEx, SVC_priority, 4000,
                     PromisedAware, NoneDt) }

\* step 1: the tracking adapter is called for FEDEX and UPS only
RequestAnswers(shipment) ==
    IF _normalize_carrier(shipment.carrier) \in {S_FEDEX, S_UPS}
    THEN LiveAnswers(_normalize_carrier(shipment.carrier),
                     Strip(shipment.tracking_number))
    ELSE {LiveNone}

\* one request to POST /ingest/shipment: audited, or refused with an error
IngestRequest ==
    \E shipment \in SubmissionPayloads \cup RejectedPayloads :
      \E live \in RequestAnswers(shipment) :
        \/ /\ \E t_audit \in Readings(now) :
                \E t_claim \in LaterReadings(t_audit) :
                  IngestAndAudit(shipment, live, t_audit, t_claim)
           /\ UNCHANGED decided
        \/ IngestRejected(shipment, live)

NextRequests == IngestRequest

SpecRequests == Init /\ [][NextRequests]_vars

(***************************************************************************)
(* Specification of the live tracking: the answer of the carrier's API,    *)
(* the adapter (FedExService.track / UPSService.track) that turns it into  *)
(* the dict the handler reads, and one ingestion into the empty ledger.    *)
(***************************************************************************)
\* the call to the carrier failed: no token, a status other than 200, a
\* network error or a body of another shape
ApiFailure == [kind |-> "failure"]
\* the handler calls no adapter (unsupported carrier)
ApiNotCalled == [kind |-> "not_called"]
\* scanEvents is absent or empty
NoScanEvent == [kind |-> "missing", dt |-> Naive(0)]

\* FedEx: latestStatusDetail {statusByLocale, code, date or time} and
\* scanEvents[0].date
FedExResponse(status, code, date, scan) ==
    [kind |-> "result", status |-> status, code |-> code, date |-> date,
     scan |-> scan]

\* UPS: activity[0] {status.description, date and time}
UPSResponse(status, date) ==
    [kind |-> "result", status |-> status, date |-> date]

\* FedExService.track; wall is datetime.now() of the adapter
FedExService_track(api, tracking_number, wall) ==
    IF api.kind = "failure" THEN LiveNone
    ELSE LET raw_ts ==
                 IF api.date.kind # "none" THEN api.date
                 ELSE IF api.scan.kind # "missing" THEN api.scan
                 ELSE IsoTimestamp(Naive(wall))
         IN  FedExAnswer(tracking_number, api.status, api.code, raw_ts)

\* UPSService.track: a missing date is a KeyError and a date strptime
\* refuses is a ValueError, both answered with None
UPSService_track(api, tracking_number) ==
    IF api.kind = "failure" THEN LiveNone
    ELSE IF api.date.kind # "iso" THEN LiveNone
    ELSE UPSAnswer(tracking_number, api.status, api.date)

\* system times of the adapter: 10:20 and 15:00
WallClocks == {620, 900}

FedExResponses ==
    {ApiFailure}
    \cup {FedExResponse(st, <<"D","E">>, ts[1], ts[2]) :
            st \in {ST_Delivered, ST_Weather_delay},
            ts \in { <<IsoTimestamp(Aware(600, -300)), NoScanEvent>>,
                     <<BadTimestamp, NoScanEvent>>,
                     <<NoTimestamp, IsoTimestamp(Naive(640))>>,
                     <<NoTimestamp, BadTimestamp>>,
                     <<NoTimestamp, NoTimestamp>>,
                     <<NoTimestamp, NoScanEvent>> }}

UPSResponses ==
    {ApiFailure}
    \cup {UPSResponse(st, date) :
            st \in {ST_Delivered, ST_Weather_delay},
            date \in {IsoTimestamp(Naive(640)), IsoTimestamp(Naive(700)),
                      BadTimestamp, NoTimestamp}}

\* the adapter's answer together with the response it was made from
Tracked(live, api) ==
    [present |-> live.present, data |-> live.data, api |-> api]

\* step 1 of the handler: the adapter of the carrier is called
TrackedAnswers(shipment) ==
    LET carrier == _normalize_carrier(shipment.carrier)
        tracking == Strip(shipment.tracking_number)
    IN  IF carrier = S_FEDEX
        THEN {Tracked(FedExService_track(api, tracking, wall), api) :
                 api \in FedExResponses, wall \in WallClocks}
        ELSE IF carrier = S_UPS
        THEN {Tracked(UPSService_track(api, tracking), api) :
                 api \in UPSResponses}
        ELSE {Tracked(LiveNone, ApiNotCalled)}

TrackedPayloads ==
    WidePayloads
      \cup {ShipmentIngest(T_1, C_DHL, SVC_priority, 4000,
                           PromisedAware, Aware(555, -300))}

\* one request to POST /ingest/shipment on the empty ledger
IngestTracked ==
    /\ last.op = "init"
    /\ \E shipment \in TrackedPayloads :
         \E live \in TrackedAnswers(shipment) :
           \/ /\ \E t_audit \in Readings(now) :
                   \E t_claim \in LaterReadings(t_audit) :
                     IngestAndAudit(shipment, live, t_audit, t_claim)
              /\ UNCHANGED decided
           \/ IngestRejected(shipment, live)

NextTracking == IngestTracked

SpecTracking == InitDecide /\ [][NextTracking]_vars

(***************************************************************************)
(* Specification of the ledger steps: ingest_and_audit statement by        *)
(* statement.  Each of the three upserts is a select followed by an update *)
(* or an insert; calls run side by side, a call can stop (the process      *)
(* dies) and a statement on the store can raise.  The wall clock advances  *)
(* by one tick when a call begins.                                         *)
(***************************************************************************)
\* the positions of a call between two statements on the store
InProgress == {"s1_get", "s1_put", "s2_get", "s2_put", "s3_get", "s3_put"}

\* mutant of AfterFailure: the call goes on from the statement that raised
AfterFailure_retrying(pc) == pc

\* except Exception as e: raise HTTPException(500): the call is over
AfterFailure(pc) == "failed"

\* FedEx T1, late on a guaranteed service, and UPS T1, delivered in time
StepPayloads ==
    { ShipmentIngest(T_1, C_FedEx, SVC_priority, 12550,
                     PromisedAware, Aware(555, -300)),
      ShipmentIngest(T_1, C_UPS, SVC_NEXT_DAY_AIR, 12550,
                     PromisedNaive, Naive(600)) }

\* steps 0-5: the request is validated and the verdict is computed
BeginCallWith(i, payloads) ==
    /\ calls[i].pc = "idle"
    /\ i > 1 => calls[i - 1].pc # "idle"
    /\ \E shipment \in payloads :
         \E c \in {CanonicalInputs(shipment, LiveNone)} :
         \E is_guaranteed \in
               _is_service_guaranteed(service_commitments, c.carrier,
                                      c.service_norm),
            exc \in _lookup_exception_rule(exception_rules, c.carrier,
                                           c.live_exception_code,
                                           c.live_exception_text) :
         \E d \in {Decide(c.ambiguous_time, c.is_late, is_guaranteed,
                          exc.found, exc.category, shipment.total_charged)} :
           /\ IngestError(shipment, LiveNone) = 0
           /\ calls' = [calls EXCEPT ![i] =
                  [NoCall EXCEPT
                     !.pc = "s1_get", !.shipment = shipment, !.d = d,
                     !.exc = exc, !.stopped_at = "",
                     !.alone = \A j \in CallIds \ {i} :
                                  calls[j].pc \notin InProgress]]
    /\ \E t \in Readings(now) : now' = t
    /\ UNCHANGED <<ledger, service_commitments, exception_rules, last,
                   decided, inflight>>

BeginCall(i) == BeginCallWith(i, StepPayloads)

\* step 6, _get_shipment_by_natural_key
GetShipment(i) ==
    /\ calls[i].pc = "s1_get"
    /\ \E c \in {CanonicalInputs(calls[i].shipment, LiveNone)} :
       \E exS \in _get_shipment_by_natural_key(shipments, c.carrier,
                                               c.tracking) :
          calls' = [calls EXCEPT ![i].pc = "s1_put", ![i].exS = exS]
    /\ UNCHANGED <<ledger, service_commitments, exception_rules, now, last,
                   decided, inflight>>

\* step 6, the update or insert of _upsert_shipment
PutShipment(i) ==
    /\ calls[i].pc = "s1_put"
    /\ \E c \in {CanonicalInputs(calls[i].shipment, LiveNone)} :
       \E us \in {_upsert_shipment(shipments, calls[i].exS, c.carrier,
                                   c.tracking,
                                   ShipFields(calls[i].shipment, c))} :
          /\ shipments' = us.tbl
          /\ calls' = [calls EXCEPT ![i].pc = "s2_get",
                                    ![i].shipment_id = us.row.id]
    /\ UNCHANGED <<audit_results, claims, service_commitments,
                   exception_rules, now, last, decided, inflight>>

\* step 7, audited_at is read and _get_audit_by_shipment_id runs
GetAudit(i) ==
    /\ calls[i].pc = "s2_get"
    /\ \E exA \in _get_audit_by_shipment_id(audit_results,
                                            calls[i].shipment_id) :
          calls' = [calls EXCEPT ![i].pc = "s2_put", ![i].exA = exA,
                                 ![i].t_audit = now]
    /\ UNCHANGED <<ledger, service_commitments, exception_rules, now, last,
                   decided, inflight>>

\* step 7, the update or insert of _upsert_audit_result
PutAudit(i) ==
    /\ calls[i].pc = "s2_put"
    /\ \E c \in {CanonicalInputs(calls[i].shipment, LiveNone)} :
       \E ua \in {_upsert_audit_result(
                      audit_results, calls[i].exA, calls[i].shipment_id,
                      AuditFields(c, calls[i].d, calls[i].exc,
                                  calls[i].t_audit))} :
          /\ audit_results' = ua.tbl
          /\ calls' = [calls EXCEPT
                         ![i].pc = IF calls[i].d.is_eligible THEN "s3_get"
                                   ELSE "done",
                         ![i].audit_id = ua.row.id,
                         ![i].status_code =
                             IF calls[i].d.is_eligible THEN 0 ELSE 200,
                         ![i].stopped_at =
                             IF calls[i].d.is_eligible THEN "" ELSE "done"]
    /\ UNCHANGED <<shipments, claims, service_commitments, exception_rules,
                   now, last, decided, inflight>>

\* step 8, created_at is read and _get_claim_by_shipment_id runs
GetClaim(i) ==
    /\ calls[i].pc = "s3_get"
    /\ \E exC \in _get_claim_by_shipment_id(claims, calls[i].shipment_id) :
          calls' = [calls EXCEPT ![i].pc = "s3_put", ![i].exC = exC,
                                 ![i].t_claim = now]
    /\ UNCHANGED <<ledger, service_commitments, exception_rules, now, last,
                   decided, inflight>>

\* step 8, the update or insert of _upsert_claim, and the response
PutClaim(i) ==
    /\ calls[i].pc = "s3_put"
    /\ calls[i].exC.id = NULL => Cardinality(claims) < MaxClaims
    /\ \E uc \in {_upsert_claim(claims, calls[i].exC, calls[i].shipment_id,
                                calls[i].audit_id,
                                ClaimFields(calls[i].d, calls[i].t_claim))} :
          /\ claims' = uc.tbl
          /\ calls' = [calls EXCEPT ![i].pc = "done",
                                    ![i].status_code = 200,
                                    ![i].stopped_at = "done"]
    /\ UNCHANGED <<shipments, audit_results, service_commitments,
                   exception_rules, now, last, decided, inflight>>

\* the process dies after the write of a step and before the next step:
\* nothing more is executed
Crash(i) ==
    /\ calls[i].pc \in {"s2_get", "s3_get"}
    /\ calls' = [calls EXCEPT ![i].pc = "crashed",
                              ![i].stopped_at = calls[i].pc]
    /\ UNCHANGED <<ledger, service_commitments, exception_rules, now, last,
                   decided, inflight>>

\* the update or insert of a step raises: except Exception ->
\* HTTPException(500)
Fail(i) ==
    /\ calls[i].pc \in {"s1_put", "s2_put", "s3_put"}
    /\ calls[i].status_code = 0
    /\ calls' = [calls EXCEPT ![i].pc = AfterFailure(calls[i].pc),
                              ![i].status_code = 500,
                              ![i].stopped_at = calls[i].pc]
    /\ UNCHANGED <<ledger, service_commitments, exception_rules, now, last,
                   decided, inflight>>

NextSteps ==
    \E i \in CallIds :
        \/ BeginCall(i)
        \/ GetShipment(i)
        \/ PutShipment(i)
        \/ GetAudit(i)
        \/ PutAudit(i)
        \/ GetClaim(i)
        \/ PutClaim(i)
        \/ Crash(i)
        \/ Fail(i)

SpecSteps == Init /\ [][NextSteps]_vars

(***************************************************************************)
(* Specification of the retried ledger steps: on a ledger that ingestions  *)
(* and promote_claims have written, _upsert_audit_result or _upsert_claim  *)
(* is executed with some arguments and then again with the same arguments. *)
(***************************************************************************)
Upserting == {"upsert_audit_result", "upsert_claim"}

IngestForRetry ==
    /\ last.op \notin Upserting
    /\ \E shipment \in StepPayloads :
         \E t_audit \in Readings(now) :
           \E t_claim \in LaterReadings(t_audit) :
             IngestAndAudit(shipment, LiveNone, t_audit, t_claim)
    /\ UNCHANGED decided

PromoteForRetry ==
    /\ last.op \notin Upserting
    /\ PromoteClaims

\* audit_fields of the verdicts of the payloads, audited at the time t
AuditFieldSets(t) ==
    UNION { { AuditFields(CanonicalInputs(p, LiveNone),
                          Decide(CanonicalInputs(p, LiveNone).ambiguous_time,
                                 CanonicalInputs(p, LiveNone).is_late, g,
                                 NoException.found, NoException.category,
                                 p.total_charged),
                          NoException, t) :
                g \in BOOLEAN } : p \in StepPayloads }

\* claim_fields of an eligible verdict, created at the time t
ClaimFieldSets(t) ==
    { ClaimFields([failure_reason |-> <<>>, refundable_amount |-> amount], t) :
        amount \in {p.total_charged : p \in StepPayloads} }

\* _upsert_audit_result(db, shipment_id, fields), for the first time
UpsertAuditResult ==
    /\ last.op \notin Upserting
    /\ \E shipment_id \in Ids(shipments), fields \in AuditFieldSets(now) :
       \E existing \in _get_audit_by_shipment_id(audit_results, shipment_id) :
       \E ua \in {_upsert_audit_result(audit_results, existing, shipment_id,
                                       fields)} :
          /\ audit_results' = ua.tbl
          /\ last' = [op |-> "upsert_audit_result",
                      shipment_id |-> shipment_id, audit_id |-> NULL,
                      fields |-> fields, runs |-> 1,
                      rows_before |->
                          Cardinality(AuditsOf(audit_results, shipment_id)),
                      first |-> ua.row, row |-> ua.row]
    /\ UNCHANGED <<shipments, claims, service_commitments, exception_rules,
                   now, decided, inflight, calls>>

\* the same call once more
RetryUpsertAuditResult ==
    /\ last.op = "upsert_audit_result"
    /\ last.runs < MaxRuns
    /\ \E existing \in _get_audit_by_shipment_id(audit_results,
                                                 last.shipment_id) :
       \E ua \in {_upsert_audit_result(audit_results, existing,
                                       last.shipment_id, last.fields)} :
          /\ audit_results' = ua.tbl
          /\ last' = [last EXCEPT !.runs = last.runs + 1, !.row = ua.row]
    /\ UNCHANGED <<shipments, claims, service_commitments, exception_rules,
                   now, decided, inflight, calls>>

\* _upsert_claim(db, shipment_id, audit_id, fields), for the first time
UpsertClaim ==
    /\ last.op \notin Upserting
    /\ \E shipment_id \in Ids(shipments), fields \in ClaimFieldSets(now) :
       \E audit_id \in Ids(AuditsOf(audit_results, shipment_id)) :
       \E existing \in _get_claim_by_shipment_id(claims, shipment_id) :
       \E uc \in {_upsert_claim(claims, existing, shipment_id, audit_id,
                                fields)} :
          /\ existing.id = NULL => Cardinality(claims) < MaxClaims
          /\ claims' = uc.tbl
          /\ last' = [op |-> "upsert_claim",
                      shipment_id |-> shipment_id, audit_id |-> audit_id,
                      fields |-> fields, runs |-> 1,
                      rows_before |->
                          Cardinality(ClaimsOf(claims, shipment_id)),
                      first |-> uc.row, row |-> uc.row]
    /\ UNCHANGED <<shipments, audit_results, service_commitments,
                   exception_rules, now, decided, inflight, calls>>

\* the same call once more
RetryUpsertClaim ==
    /\ last.op = "upsert_claim"
    /\ last.runs < MaxRuns
    /\ \E existing \in _get_claim_by_shipment_id(claims, last.shipment_id) :
       \E uc \in {_upsert_claim(claims, existing, last.shipment_id,
                                last.audit_id, last.fields)} :
          /\ existing.id = NULL => Cardinality(claims) < MaxClaims
          /\ claims' = uc.tbl
          /\ last' = [last EXCEPT !.runs = last.runs + 1, !.row = uc.row]
    /\ UNCHANGED <<shipments, audit_results, service_commitments,
                   exception_rules, now, decided, inflight, calls>>

NextRetry ==
    \/ IngestForRetry
    \/ PromoteForRetry
    \/ UpsertAuditResult
    \/ RetryUpsertAuditResult
    \/ UpsertClaim
    \/ RetryUpsertClaim

SpecRetry == Init /\ [][NextRetry]_vars

(***************************************************************************)
(* Properties.                                                             *)
(***************************************************************************)
\* a step that is one call of ingest_and_audit (every call advances the clock)
IngestStep == now' # now /\ last'.op = "ingest"

\* an ingestion that repeats the previous call: same payload, same tracking
\* answer, same lookups, and no operation in between
RepeatStep == IngestStep /\ last'.repeat

RowsOfKey(tbl, carrier, tracking) ==
    {r \in tbl : r.carrier = carrier /\ r.tracking_number = tracking}
Without(row, column) == [k \in DOMAIN row \ {column} |-> row[k]]

\* the audit_results row written by the latest ingestion
LastAudit == CHOOSE a \in audit_results : a.id = last.audit_id

\* the ambiguity gate in the words of the specification
GateFires(call) ==
    /\ call.tz_confidence < CONF_GIVEN
    /\ Abs(call.actual_utc - call.promised_utc) < 30

\* C1 (as stated): N sequential ingestions of one payload leave one
\* Shipment row, one AuditResult row and at most one Claim row, and the ledger
\* after a repeated run equals the ledger after the run before it.
C1_Original ==
    [][RepeatStep =>
        /\ ledger' = ledger
        /\ Cardinality(RowsOfKey(shipments', last'.carrier,
                                 last'.tracking)) = 1
        /\ Cardinality(AuditsOf(audit_results', last'.shipment_id)) = 1
        /\ Cardinality(ClaimsOf(claims', last'.shipment_id)) <= 1]_vars

\* C1 (amended): a repeated ingestion leaves one Shipment row and one
\* AuditResult row, inserts no row, leaves the shipments table unchanged and
\* the audit_results table unchanged except for audited_at; the only Claim
\* row it can change is the one it rewrites, to the audit_id, amount, reason
\* and status DRAFT the previous run wrote; when the shipment has at most
\* one Claim the claims table is unchanged except for created_at.
C1_Idempotent ==
    [][RepeatStep =>
        /\ shipments' = shipments
        /\ Cardinality(RowsOfKey(shipments', last'.carrier,
                                 last'.tracking)) = 1
        /\ Cardinality(AuditsOf(audit_results', last'.shipment_id)) = 1
        /\ {Without(a, "audited_at") : a \in audit_results'}
             = {Without(a, "audited_at") : a \in audit_results}
        /\ Cardinality(audit_results') = Cardinality(audit_results)
        /\ Ids(claims') = Ids(claims)
        /\ Cardinality(claims') = Cardinality(claims)
        /\ \A c \in claims' :
             \/ c \in claims
             \/ /\ c.id = last'.claim_id
                /\ c.shipment_id = last.shipment_id
                /\ c.audit_id = last.audit_id
                /\ c.status = "DRAFT"
                /\ c.claim_amount = last.refundable_amount
                /\ c.reason = last.failure_reason
                /\ \E b \in claims :
                     /\ b.id = c.id
                     /\ b.shipment_id = c.shipment_id
                     /\ b.submitted_at = c.submitted_at
                     /\ b.settled_at = c.settled_at
                     /\ b.carrier_case_number = c.carrier_case_number
                     /\ b.recovery_amount = c.recovery_amount
        /\ Cardinality(ClaimsOf(claims, last.shipment_id)) <= 1
             => {Without(c, "created_at") : c \in claims'}
                  = {Without(c, "created_at") : c \in claims}]_vars

\* an eligible payload was ingested twice in a row and its claim rewritten
C1_Witness ==
    /\ last.op = "ingest"
    /\ last.repeat
    /\ last.is_eligible
    /\ last.claim_before.id # NULL
    /\ last.audit_before.audited_at < last.t_audit

C2_Inv ==
    /\ \A s1, s2 \in shipments :
         s1.carrier = s2.carrier /\ s1.tracking_number = s2.tracking_number
             => s1 = s2
    /\ \A s \in shipments : Cardinality(AuditsOf(audit_results, s.id)) = 1
    /\ last.op = "ingest" =>
         /\ \E s \in shipments :
              /\ s.id = last.shipment_id
              /\ s.carrier = last.carrier
              /\ s.tracking_number = last.tracking
              /\ s.service_type =
                   _normalize_service_type(last.shipment.service_type)
              /\ s.promised_delivery = last.promised_utc
              /\ s.actual_delivery = last.actual_utc
              /\ s.total_charged = last.shipment.total_charged
              /\ s.raw_json_data = last.shipment
         /\ \E a \in audit_results :
              /\ a.id = last.audit_id
              /\ a.shipment_id = last.shipment_id
              /\ a.is_eligible = last.is_eligible
              /\ a.variance_amount = last.refundable_amount
              /\ a.failure_reason = last.failure_reason
              /\ a.rule_id = last.rule_id
              /\ a.audited_at = last.t_audit
              /\ a.timezone_confidence = last.tz_confidence
              /\ a.exception_category = last.exception.category
              /\ a.exception_signal = last.exception.signal

C2_Step ==
    /\ ~IngestStep =>
         shipments' = shipments /\ audit_results' = audit_results
    /\ IngestStep =>
         /\ \A s \in shipments : s.id # last'.shipment_id => s \in shipments'
         /\ \A a \in audit_results :
              a.shipment_id # last'.shipment_id => a \in audit_results'
         /\ Ids(shipments) \subseteq Ids(shipments')
         /\ Ids(audit_results) \subseteq Ids(audit_results')

\* C2: after any sequence of ingestions the shipments table holds exactly
\* one row per natural key and the audit_results table exactly one row per
\* shipment, both carrying the values of the most recent ingestion of the
\* key (rows are updated in place; no other step touches them).
C2_OneRowLatestValues == []C2_Inv /\ [][C2_Step]_vars

\* a shipment was ingested again with another charge and another verdict
C2_Witness ==
    /\ last.op = "ingest"
    /\ last.shipment_before.id # NULL
    /\ last.audit_before.id # NULL
    /\ last.shipment_before.total_charged # last.shipment.total_charged
    /\ last.shipment_before.actual_delivery # last.actual_utc
    /\ last.audit_before.is_eligible # last.is_eligible

\* C3 (as stated): in every reachable state each Shipment has zero or one
\* Claim row.
C3_AtMostOneClaim ==
    \A s \in shipments : Cardinality(ClaimsOf(claims, s.id)) <= 1

\* C4: an ingestion whose verdict is not eligible leaves the claims table
\* unchanged, and an ingestion inserts a Claim row only when its verdict is
\* eligible.
C4_IneligibleWritesNoClaim ==
    [][IngestStep =>
        /\ ~last'.is_eligible => claims' = claims
        /\ Ids(claims') # Ids(claims) => last'.is_eligible]_vars

\* a not-eligible re-audit of a shipment whose claim was already submitted
C4_Witness ==
    /\ last.op = "ingest"
    /\ ~last.is_eligible
    /\ \E c \in claims :
         c.shipment_id = last.shipment_id /\ c.status # "DRAFT"

\* C5 (as stated): an eligible ingestion that finds a Claim updates its
\* claim_amount and reason and leaves its status, timestamps,
\* carrier_case_number and recovery_amount unchanged.
C5_ExistingClaimKeepsStatus ==
    [][IngestStep /\ last'.is_eligible /\ last'.claim_before.id # NULL =>
        \E c \in claims' :
          /\ c.id = last'.claim_before.id
          /\ c.claim_amount = last'.refundable_amount
          /\ c.reason = last'.failure_reason
          /\ c.status = last'.claim_before.status
          /\ c.created_at = last'.claim_before.created_at
          /\ c.submitted_at = last'.claim_before.submitted_at
          /\ c.settled_at = last'.claim_before.settled_at
          /\ c.carrier_case_number = last'.claim_before.carrier_case_number
          /\ c.recovery_amount = last'.claim_before.recovery_amount]_vars

\* C6: when the ambiguity gate does not fire, the recorded verdict is
\* is_eligible = (actual_utc > promised_utc) and guaranteed and not
\* exception_found.
C6_CombinedVerdict ==
    last.op = "ingest" /\ ~GateFires(last) =>
        /\ LastAudit.is_eligible =
             (/\ last.actual_utc > last.promised_utc
              /\ last.is_guaranteed
              /\ ~last.exception.found)
        /\ last.is_eligible = LastAudit.is_eligible

\* equal timestamps on a guaranteed service without exception: on time
C6_Witness ==
    /\ last.op = "ingest"
    /\ ~GateFires(last)
    /\ last.actual_utc = last.promised_utc
    /\ last.is_guaranteed
    /\ ~last.exception.found
    /\ ~LastAudit.is_eligible

\* C7: when the combined timezone confidence is below 1.0 and the two times
\* are less than 30 minutes apart, the decision is not eligible, variance 0,
\* reason 'Ambiguous delivery time (timezone)', rule
\* RULE_TZ_AMBIGUOUS_FAIL_CLOSED, whatever the guarantee and the exception
\* result, and the ingestion creates no Claim.
C7_GateFailsClosed ==
    [][IngestStep /\ GateFires(last') =>
        /\ ~last'.is_eligible
        /\ last'.response.leakage_found = 0
        /\ last'.response.claim_status = "SKIPPED"
        /\ \E a \in audit_results' :
             /\ a.id = last'.audit_id
             /\ ~a.is_eligible
             /\ a.variance_amount = 0
             /\ a.failure_reason = <<"Ambiguous delivery time (timezone)">>
             /\ a.rule_id = "RULE_TZ_AMBIGUOUS_FAIL_CLOSED"
        /\ claims' = claims]_vars

\* 20 minutes late on naive timestamps, guaranteed, no exception
C7_Witness ==
    /\ last.op = "ingest"
    /\ GateFires(last)
    /\ last.actual_utc = last.promised_utc + 20
    /\ last.is_guaranteed
    /\ ~last.exception.found
    /\ LastAudit.rule_id = "RULE_TZ_AMBIGUOUS_FAIL_CLOSED"
    /\ claims = {}

\* C8: when the gate does not fire the recorded outcome is the first that
\* applies of: exception, not guaranteed, late, on time; and in every
\* AuditResult is_eligible holds exactly when rule_id is RULE_LATE_DELIVERY.
C8_OutcomePriority ==
    /\ last.op = "ingest" /\ ~GateFires(last) =>
         <<LastAudit.failure_reason, LastAudit.rule_id>> =
            (IF last.exception.found
             THEN << <<"Excusable Delay (", last.exception.category, ")">>,
                     "RULE_EXCEPTION_RULES" >>
             ELSE IF ~last.is_guaranteed
             THEN << <<"Non-guaranteed service">>,
                     "RULE_SERVICE_NOT_GUARANTEED" >>
             ELSE IF last.actual_utc > last.promised_utc
             THEN << <<"Late Delivery (GSR)">>, "RULE_LATE_DELIVERY" >>
             ELSE << <<>>, "RULE_ON_TIME" >>)
    /\ \A a \in audit_results :
         a.is_eligible <=> a.rule_id = "RULE_LATE_DELIVERY"

\* an exception on a late delivery of a service that is not guaranteed
C8_Witness ==
    /\ last.op = "ingest"
    /\ ~GateFires(last)
    /\ last.exception.found
    /\ ~last.is_guaranteed
    /\ last.actual_utc > last.promised_utc
    /\ LastAudit.rule_id = "RULE_EXCEPTION_RULES"

\* C9 (as stated): late, guaranteed and exception_found give
\* is_eligible=false, rule RULE_EXCEPTION_RULES and variance 0.
C9_Original ==
    last.op = "ingest" /\ last.actual_utc > last.promised_utc
        /\ last.is_guaranteed /\ last.exception.found =>
        /\ ~LastAudit.is_eligible
        /\ LastAudit.rule_id = "RULE_EXCEPTION_RULES"
        /\ LastAudit.variance_amount = 0

\* C9 (amended): late, guaranteed and exception_found give
\* is_eligible=false and variance 0, with rule RULE_EXCEPTION_RULES when the
\* ambiguity gate does not fire and RULE_TZ_AMBIGUOUS_FAIL_CLOSED when it
\* does.
C9_ExceptionOverridesLateness ==
    last.op = "ingest" /\ last.actual_utc > last.promised_utc
        /\ last.is_guaranteed /\ last.exception.found =>
        /\ ~LastAudit.is_eligible
        /\ LastAudit.variance_amount = 0
        /\ last.response.claim_status = "SKIPPED"
        /\ LastAudit.rule_id =
             IF GateFires(last) THEN "RULE_TZ_AMBIGUOUS_FAIL_CLOSED"
             ELSE "RULE_EXCEPTION_RULES"

\* late by hours on a guaranteed service, with an excusable exception
C9_Witness ==
    /\ last.op = "ingest"
    /\ last.actual_utc > last.promised_utc + 30
    /\ last.is_guaranteed
    /\ last.exception.found
    /\ LastAudit.rule_id = "RULE_EXCEPTION_RULES"

\* C10 (as stated): actual_utc <= promised_utc gives is_eligible=false,
\* failure_reason null, rule RULE_ON_TIME, and no Claim is created.
C10_Original ==
    [][IngestStep /\ last'.actual_utc <= last'.promised_utc =>
        /\ ~last'.is_eligible
        /\ last'.failure_reason = <<>>
        /\ last'.rule_id = "RULE_ON_TIME"
        /\ claims' = claims]_vars

\* C10 (amended): actual_utc <= promised_utc gives is_eligible=false and no
\* Claim is created; failure_reason is null and the rule RULE_ON_TIME when
\* moreover the gate does not fire, no exception is found and the service is
\* guaranteed.
C10_OnTimeNoOp ==
    [][IngestStep /\ last'.actual_utc <= last'.promised_utc =>
        /\ ~last'.is_eligible
        /\ last'.refundable_amount = 0
        /\ claims' = claims
        /\ \E a \in audit_results' :
             /\ a.id = last'.audit_id
             /\ ~a.is_eligible
             /\ (~GateFires(last') /\ ~last'.exception.found
                    /\ last'.is_guaranteed) =>
                  a.failure_reason = <<>> /\ a.rule_id = "RULE_ON_TIME"]_vars

\* delivered at the promised minute on a guaranteed service, no exception
C10_Witness ==
    /\ last.op = "ingest"
    /\ last.actual_utc = last.promised_utc
    /\ ~GateFires(last)
    /\ last.is_guaranteed
    /\ ~last.exception.found
    /\ LastAudit.rule_id = "RULE_ON_TIME"
    /\ LastAudit.failure_reason = <<>>
    /\ claims = {}

\* the current (valid_to null) service_commitments rows of the key of a call
CurrentCommitments(call) ==
    {r \in service_commitments :
        /\ r.carrier = call.carrier
        /\ r.service_type = _normalize_service_type(call.shipment.service_type)
        /\ r.valid_to = NULL}

\* C11: when no current service_commitments row exists for the (carrier,
\* normalized service type) of an ingestion, or the normalized service type
\* is empty, the resolver gives guaranteed=false, the verdict is not
\* eligible with variance 0 however late the delivery is, and the
\* ingestion writes no Claim.
C11_GuaranteeFailsClosed ==
    [][IngestStep /\ (\/ CurrentCommitments(last') = {}
                      \/ _normalize_service_type(
                             last'.shipment.service_type) = <<>>) =>
        /\ ~last'.is_guaranteed
        /\ ~last'.is_eligible
        /\ last'.response.leakage_found = 0
        /\ last'.response.claim_status = "SKIPPED"
        /\ \E a \in audit_results' :
             /\ a.id = last'.audit_id
             /\ ~a.is_eligible
             /\ a.variance_amount = 0
        /\ claims' = claims]_vars

\* hours late without exception on a service whose only commitment row, a
\* guaranteed one, has expired
C11_Witness ==
    /\ last.op = "ingest"
    /\ CurrentCommitments(last) = {}
    /\ \E r \in service_commitments :
         /\ r.carrier = last.carrier
         /\ r.service_type =
              _normalize_service_type(last.shipment.service_type)
         /\ r.guaranteed
         /\ r.valid_to # NULL
    /\ last.actual_utc > last.promised_utc + 30
    /\ ~last.exception.found
    /\ ~last.is_guaranteed
    /\ LastAudit.rule_id = "RULE_SERVICE_NOT_GUARANTEED"
    /\ claims = {}

\* the charge recorded on the shipments row an audit_results row belongs to
ChargeOf(a) == (CHOOSE s \in shipments : s.id = a.shipment_id).total_charged

\* C12: in every audit_results row and in the response of every ingestion,
\* variance_amount (leakage_found) is the shipment's total_charged when
\* is_eligible and 0 when not, so that it is positive exactly when
\* is_eligible.
C12_VarianceIsBinary ==
    /\ \A a \in audit_results :
         /\ a.variance_amount = IF a.is_eligible THEN ChargeOf(a) ELSE 0
         /\ a.variance_amount > 0 <=> a.is_eligible
    /\ last.op = "ingest" =>
         /\ last.shipment.total_charged > 0
         /\ last.response.leakage_found =
              IF last.is_eligible THEN last.shipment.total_charged ELSE 0
         /\ last.response.leakage_found > 0 <=> last.is_eligible
         /\ LastAudit.variance_amount = last.response.leakage_found

\* an eligible row carrying its charge next to a not-eligible row carrying 0,
\* after an ingestion that answered 0
C12_Witness ==
    /\ last.op = "ingest"
    /\ ~last.is_eligible
    /\ last.response.leakage_found = 0
    /\ \E a, b \in audit_results :
         /\ a.is_eligible /\ a.variance_amount = ChargeOf(a)
         /\ a.variance_amount > 0
         /\ ~b.is_eligible /\ b.variance_amount = 0 /\ ChargeOf(b) > 0

\* C13: any two evaluations of the decision on the same promised and actual
\* time, timezone awareness, guarantee, exception result and charge give the
\* same is_eligible, variance_amount, failure_reason and rule_id (and the
\* same response), whatever the ledger held before and whatever was
\* ingested earlier.
C13_DecisionIsDeterministic ==
    \A p, q \in decided : p.in = q.in => p.out = q.out

\* the same inputs decided twice, eligible: once on the empty ledger and once
\* on a ledger that already held a shipment and a claim
C13_Witness ==
    \E p, q \in decided :
        /\ p.in = q.in
        /\ p.out.is_eligible
        /\ p.prior.shipments = 0
        /\ q.prior.shipments > 0
        /\ q.prior.claims > 0

\* C14: an eligible ingestion of a shipment that has no Claim inserts exactly
\* one Claim: status DRAFT, claim_amount equal to the variance_amount of the
\* AuditResult (the total_charged), referring to the shipment's id and to
\* the id of the AuditResult this ingestion wrote; the response reports
\* claim_status DRAFT.
C14_FirstEligibleCreatesDraft ==
    [][IngestStep /\ last'.is_eligible
          /\ ClaimsOf(claims, last'.shipment_id) = {} =>
        /\ last'.response.claim_status = "DRAFT"
        /\ \E c \in claims' \ claims :
             /\ claims' = claims \cup {c}
             /\ c.id \notin Ids(claims)
             /\ c.id = last'.claim_id
             /\ c.status = "DRAFT"
             /\ c.claim_amount = last'.shipment.total_charged
             /\ c.shipment_id = last'.shipment_id
             /\ c.audit_id = last'.audit_id
             /\ \E sh \in shipments' : sh.id = c.shipment_id
             /\ \E a \in audit_results' :
                  /\ a.id = c.audit_id
                  /\ a.shipment_id = c.shipment_id
                  /\ a.is_eligible
                  /\ a.audited_at = last'.t_audit
                  /\ a.variance_amount = c.claim_amount]_vars

\* a shipment first audited as not eligible is audited again, now eligible:
\* its first Claim is in the table, in DRAFT
C14_Witness ==
    /\ last.op = "ingest"
    /\ last.is_eligible
    /\ last.claim_before.id = NULL
    /\ last.shipment_before.id # NULL
    /\ ~last.audit_before.is_eligible
    /\ \E c \in claims :
         /\ c.id = last.claim_id
         /\ c.status = "DRAFT"
         /\ c.audit_id = last.audit_id
         /\ c.claim_amount = last.shipment.total_charged
    /\ Cardinality(ClaimsOf(claims, last.shipment_id)) = 1

\* a step that is one call of reconcile_claim
ReconcileStep == now' # now /\ last'.op = "reconcile_claim"

\* the row of a table with the id of `row`
SameId(tbl, row) == {r \in tbl : r.id = row.id}

\* C15 (as stated): a reconcile_claim call rewrites a claim (to RECOVERED or
\* DENIED) only when the claim's status before the call is SUBMITTED or
\* DISPUTED.
C15_SettlementPrecondition ==
    [][ReconcileStep =>
        \A c \in claims : \A c2 \in SameId(claims', c) :
            c2 # c /\ c2.status \in {"RECOVERED", "DENIED"}
                => c.status \in {"SUBMITTED", "DISPUTED"}]_vars

\* C16 (as stated): a claim whose status is RECOVERED or DENIED keeps its
\* status, settled_at and recovery_amount in every later step.
C16_TerminalStatesAreFinal ==
    [][\A c \in claims : c.status \in {"RECOVERED", "DENIED"} =>
          \E c2 \in SameId(claims', c) :
              /\ c2.status = c.status
              /\ c2.settled_at = c.settled_at
              /\ c2.recovery_amount = c.recovery_amount]_vars

\* C18: reconcile_claim with a status other than RECOVERED and DENIED
\* raises 'Invalid reconciliation status', and with status RECOVERED and no
\* recovery_amount raises 'Recovered Amount is required for RECOVERED'; in
\* both cases no table is written.
C18_ReconcileErrorsWriteNothing ==
    [][ReconcileStep =>
        /\ last'.status \notin {"RECOVERED", "DENIED"} =>
              /\ last'.raised
              /\ last'.error = "Invalid reconciliation status"
        /\ last'.status = "RECOVERED" /\ last'.recovery_amount = NULL =>
              /\ last'.raised
              /\ last'.error = "Recovered Amount is required for RECOVERED"
        /\ last'.raised => ledger' = ledger
        /\ last'.raised =>
              \/ last'.status \notin {"RECOVERED", "DENIED"}
              \/ last'.status = "RECOVERED"
                    /\ last'.recovery_amount = NULL]_vars

\* RECOVERED without an amount was refused for a submitted claim, which is
\* still submitted and not settled
C18_Witness ==
    /\ last.op = "reconcile_claim"
    /\ last.status = "RECOVERED"
    /\ last.recovery_amount = NULL
    /\ last.raised
    /\ \E c \in claims :
         /\ c.id = last.claim_id
         /\ c.status = "SUBMITTED"
         /\ c.settled_at = NULL
         /\ c.recovery_amount = NULL

C19_Inv ==
    \A c \in claims :
        /\ c.recovery_amount # NULL => c.status = "RECOVERED"
        /\ c.status \in {"RECOVERED", "DENIED"} => c.settled_at # NULL

C19_Step ==
    ReconcileStep /\ ~last'.raised =>
        \A c \in claims : c.id = last'.claim_id =>
            \E c2 \in SameId(claims', c) :
                /\ c2.status = last'.status
                /\ c2.settled_at = now'
                /\ last'.status = "RECOVERED" =>
                      c2.recovery_amount = last'.recovery_amount
                /\ last'.status = "DENIED" => c2.recovery_amount = NULL

\* C19 (as stated): a successful reconcile to RECOVERED sets the status,
\* settled_at and the supplied recovery_amount; a successful reconcile to
\* DENIED sets the status and settled_at and the recovery_amount stays
\* unset; in every reachable state a claim with a recovery_amount is
\* RECOVERED and a RECOVERED or DENIED claim has settled_at set.
C19_SettlementEffects == []C19_Inv /\ [][C19_Step]_vars

\* a step that is one update of a submission (mark_claims_submitted or
\* execute_batch)
SubmissionWrite ==
    now' # now /\ last'.op \in {"mark_claims_submitted", "execute_batch"}

\* C17 (as stated): every update of a submission finds the claim in DRAFT
\* and leaves it SUBMITTED with submitted_at set; a claim that is already
\* SUBMITTED, DISPUTED, RECOVERED or DENIED is not set to SUBMITTED and its
\* submitted_at is not rewritten, under any interleaving with
\* reconcile_claim or another submission.
C17_OnlyDraftIsSubmitted ==
    [][SubmissionWrite =>
        \A c \in claims : \A c2 \in SameId(claims', c) :
            /\ c.id = last'.claim_id =>
                  /\ c.status = "DRAFT"
                  /\ c2.status = "SUBMITTED"
                  /\ c2.submitted_at = now'
            /\ c.status # "DRAFT" =>
                  /\ c2.status = c.status
                  /\ c2.submitted_at = c.submitted_at]_vars

\* a step that is a call of ingest_and_audit, accepted or not
IngestCall == last' # last /\ last'.op \in {"ingest", "ingest_rejected"}

\* C20: a call whose carrier does not normalize to FEDEX or UPS, or with a
\* null promised_delivery, delivery_ts or shipped_at, ends in an error
\* response and leaves the shipments, audit_results and claims tables
\* unchanged; and every call that ends in an error leaves them unchanged.
C20_InputErrorsWriteNothing ==
    [][IngestCall =>
        /\ (\/ _normalize_carrier(last'.shipment.carrier)
                  \notin {S_FEDEX, S_UPS}
            \/ last'.shipment.promised_delivery = NoneDt
            \/ last'.shipment.delivery_ts = NoneDt
            \/ last'.shipment.shipped_at = NoneDt)
             => /\ last'.op = "ingest_rejected"
                /\ last'.status_code \in {400, 422, 500}
        /\ last'.op = "ingest_rejected" => ledger' = ledger]_vars

\* a request for carrier DHL was refused on a ledger that holds a shipment,
\* its audit and its claim
C20_Witness ==
    /\ last.op = "ingest_rejected"
    /\ _normalize_carrier(last.shipment.carrier) = C_DHL
    /\ last.status_code # 0
    /\ shipments # {}
    /\ audit_results # {}
    /\ claims # {}

\* the confidence the specification gives to a timestamp
ConfidenceOf(dt) == IF dt.aware THEN CONF_GIVEN ELSE CONF_ASSUMED

\* C27: an aware timestamp is converted to UTC with confidence 1.0 and a
\* naive one is taken as UTC with confidence 0.7; the AuditResult's
\* timezone_confidence is the minimum of the promised and the actual
\* confidence, and timezone_assumption is SOURCE_TZ exactly when that
\* confidence is 1.0, i.e. when both timestamps are aware, else UTC_ASSUMED.
C27_TimezoneProvenance ==
    last.op = "ingest" =>
        LET promised == last.shipment.promised_delivery
            actual == ActualDt(last.shipment, last.live)
        IN  /\ last.promised_utc =
                 IF promised.aware THEN promised.t - promised.off
                 ELSE promised.t
            /\ last.actual_utc =
                 IF actual.aware THEN actual.t - actual.off ELSE actual.t
            /\ LastAudit.timezone_confidence =
                 IF ConfidenceOf(promised) <= ConfidenceOf(actual)
                 THEN ConfidenceOf(promised) ELSE ConfidenceOf(actual)
            /\ LastAudit.timezone_confidence \in {CONF_ASSUMED, CONF_GIVEN}
            /\ LastAudit.timezone_assumption \in {"SOURCE_TZ", "UTC_ASSUMED"}
            /\ LastAudit.timezone_assumption = "SOURCE_TZ"
                 <=> LastAudit.timezone_confidence = CONF_GIVEN
            /\ LastAudit.timezone_assumption = "SOURCE_TZ"
                 <=> promised.aware /\ actual.aware

\* an aware promise audited against a naive live timestamp: confidence 0.7
\* and UTC_ASSUMED, the aware time converted by its offset
C27_Witness ==
    /\ last.op = "ingest"
    /\ last.shipment.promised_delivery.aware
    /\ last.shipment.promised_delivery.off # 0
    /\ last.shipment.delivery_ts.aware
    /\ ~ActualDt(last.shipment, last.live).aware
    /\ last.promised_utc =
         last.shipment.promised_delivery.t
             - last.shipment.promised_delivery.off
    /\ LastAudit.timezone_confidence = CONF_ASSUMED
    /\ LastAudit.timezone_assumption = "UTC_ASSUMED"

\* C26: the guarantee resolver reads only the current rows (valid_to null)
\* of the exact (carrier, normalized service type): without a current row
\* the result is false whatever the expired rows say, with several current
\* rows it is the guaranteed flag of the one with the greatest valid_from;
\* the service_commitments table is never written.
C26_Inv ==
    last.op = "ingest" =>
        LET cur == CurrentCommitments(last)
        IN  IF cur = {} THEN ~last.is_guaranteed
            ELSE \E r \in cur :
                    /\ \A q \in cur : q.valid_from <= r.valid_from
                    /\ last.is_guaranteed = r.guaranteed

C26_GuaranteeFromCurrentRows ==
    []C26_Inv /\ [][service_commitments' = service_commitments]_vars

\* several current rows with different flags for the key of the call, the
\* flag of the youngest one is the answer
C26_Witness ==
    /\ last.op = "ingest"
    /\ last.is_guaranteed
    /\ \E r, q \in CurrentCommitments(last) :
          /\ r.guaranteed /\ ~q.guaranteed
          /\ q.valid_from < r.valid_from

(***************************************************************************)
(* The exception resolver on its own: _lookup_exception_rule called with   *)
(* any carrier, code and text over exception_rules tables of any content   *)
(* (no rule, excusable and non-excusable rules, several keyword rules that *)
(* occur in one text, an empty keyword).  The table maps a (carrier,       *)
(* match_type, match_value) to one rule.                                   *)
(***************************************************************************)
KW_delay == <<"d","e","l","a","y">>
CODE_DE == <<"D","E">>
CODE_de == <<"d","e">>
CODE_XX == <<"X","X">>
ST_weather == <<"b","a","d"," ","w","e","a","t","h","e","r">>

ExceptionRule(car, mt, mv, exc, cat) ==
    [carrier |-> car, match_type |-> mt, match_value |-> mv,
     excusable |-> exc, category |-> cat]

ResolveRuleTables ==
    WideExceptionRuleTables \cup
    { { ExceptionRule(S_FEDEX, "CODE", CODE_DE, FALSE, "DELAY"),
        ExceptionRule(S_FEDEX, "KEYWORD", KW_weather, TRUE, "WEATHER"),
        ExceptionRule(S_FEDEX, "KEYWORD", KW_delay, TRUE, "DELAY") },
      { ExceptionRule(S_FEDEX, "CODE", CODE_DE, FALSE, "DELAY"),
        ExceptionRule(S_FEDEX, "CODE", CODE_XX, TRUE, NoneStr),
        ExceptionRule(S_FEDEX, "KEYWORD", KW_weather, FALSE, "WEATHER"),
        ExceptionRule(S_UPS, "CODE", CODE_DE, TRUE, "DELAY") },
      { ExceptionRule(S_FEDEX, "KEYWORD", <<>>, TRUE, "ANY"),
        ExceptionRule(S_UPS, "KEYWORD", KW_delay, FALSE, "DELAY"),
        ExceptionRule(S_UPS, "CODE", CODE_DE, TRUE, "DELAY") } }

ResolveCarriers == {S_FEDEX, S_UPS, <<" ","f","e","d","e","x">>}
ResolveCodes == {<<>>, CODE_DE, CODE_de, CODE_XX}
ResolveTexts ==
    {<<>>, ST_Delivered, ST_Weather_delay, ST_weather, ST_Strike}

InitResolve ==
    /\ shipments = {}
    /\ audit_results = {}
    /\ claims = {}
    /\ service_commitments \in CommitmentTables
    /\ exception_rules \in ResolveRuleTables
    /\ now = 0
    /\ last = [op |-> "init"]
    /\ decided = {}
    /\ inflight = NoRuns
    /\ calls = NoCalls

LookupExceptionRule ==
    /\ \E carrier \in ResolveCarriers, code \in ResolveCodes,
          text \in ResolveTexts :
         \E result \in _lookup_exception_rule(exception_rules, carrier,
                                              code, text) :
           last' = [op |-> "lookup_exception_rule", carrier |-> carrier,
                    code |-> code, text |-> text, result |-> result]
    /\ UNCHANGED <<shipments, audit_results, claims, service_commitments,
                   exception_rules, now, decided, inflight, calls>>

NextResolve == LookupExceptionRule

SpecResolve == InitResolve /\ [][NextResolve]_vars

\* the excusable rules of a tier that apply to the latest resolver call
ExcusableCodeRules ==
    {r \in exception_rules :
        /\ r.carrier = Upper(Strip(last.carrier))
        /\ r.match_type = "CODE"
        /\ last.code # <<>>
        /\ r.match_value = Upper(last.code)
        /\ r.excusable}

ExcusableKeywordRules ==
    {r \in exception_rules :
        /\ r.carrier = Upper(Strip(last.carrier))
        /\ r.match_type = "KEYWORD"
        /\ r.match_value # <<>>
        /\ Contains(Upper(last.text), Upper(r.match_value))
        /\ r.excusable}

\* positions of the static keywords that occur in the text of the call
StaticHits ==
    {i \in 1..Len(EXCUSABLE_KEYWORDS) :
        Contains(Upper(last.text), EXCUSABLE_KEYWORDS[i])}

Found(category, tier, value) ==
    [found |-> TRUE, category |-> category,
     signal |-> [tier |-> tier, value |-> value]]

RulesOfReportedCode ==
    IF last.live.present /\ "code" \in DOMAIN last.live.data
    THEN {r \in exception_rules :
             /\ r.carrier = last.carrier
             /\ r.match_type = "CODE"
             /\ r.match_value = Upper(last.live.data["code"])
             /\ r.excusable}
    ELSE {}

\* C28: when live tracking reports an exception / status code for which an
\* excusable CODE rule of the carrier exists, the ingestion records
\* exception_found with exception_signal CODE:<that code>, and rule_id
\* RULE_EXCEPTION_RULES unless the ambiguity gate fires.
C28_AdapterCodeIsUsed ==
    last.op = "ingest" /\ RulesOfReportedCode # {} =>
        /\ last.exception.found
        /\ \E r \in RulesOfReportedCode :
              LastAudit.exception_signal =
                  [tier |-> "CODE:", value |-> r.match_value]
        /\ ~last.ambiguous_time => LastAudit.rule_id = "RULE_EXCEPTION_RULES"

\* the carrier's tracking call gave nothing, gave no timestamp, or gave a
\* timestamp that cannot be parsed
TrackingFailed(api) ==
    \/ api.kind = "failure"
    \/ /\ api.kind = "result"
       /\ LET given == IF "scan" \in DOMAIN api /\ api.date.kind = "none"
                       THEN api.scan ELSE api.date
          IN  given.kind \in {"none", "missing", "bad"}

\* C23: when the carrier's tracking call returns nothing, no timestamp or a
\* timestamp that cannot be parsed, the ingestion completes with a decision
\* computed from the caller's delivery_ts, and the ledger is written as it
\* is without tracking; a request is refused only for its own body.
C23_LiveTrackingFailsOpen ==
    /\ last.op = "ingest_rejected" =>
          IngestError(last.shipment, LiveNone) # 0
    /\ last.op = "ingest" /\ TrackingFailed(last.live.api) =>
          /\ last.actual_utc =
                _to_utc_with_assumption(last.shipment.delivery_ts).utc
          /\ last.is_late <=>
                _to_utc_with_assumption(last.shipment.delivery_ts).utc
                    > last.promised_utc
          /\ Cardinality(shipments) = 1
          /\ Cardinality(audit_results) = 1
          /\ Cardinality(claims) = IF last.is_eligible THEN 1 ELSE 0

\* two Shipment rows of one natural key
SameKey(r, q) ==
    r.id # q.id /\ r.carrier = q.carrier
        /\ r.tracking_number = q.tracking_number

\* C22: without a uniqueness constraint in the store, two ingestions of one
\* brand-new (carrier, tracking_number) that interleave can leave two
\* Shipment rows of that key: both lookups return nothing and both calls
\* insert.  Two rows of one key arise in no other way, and never when each
\* call begins after the calls before it are over.
C22_DuplicateInsertRace ==
    /\ \A r, q \in shipments :
          SameKey(r, q) =>
              \E i, j \in CallIds :
                  /\ i # j
                  /\ calls[i].shipment_id = r.id /\ calls[i].exS = NoRow
                  /\ calls[j].shipment_id = q.id /\ calls[j].exS = NoRow
    /\ (\A i \in CallIds : calls[i].pc # "idle" => calls[i].alone) =>
          \A r, q \in shipments : ~SameKey(r, q)

\* both calls are answered with success and the key has two Shipment rows
C22_Witness ==
    /\ \E r, q \in shipments : SameKey(r, q)
    /\ calls[1].pc = "done" /\ calls[2].pc = "done"
    /\ calls[1].shipment = calls[2].shipment
    /\ calls[1].exS = NoRow /\ calls[2].exS = NoRow

\* the ledger one uninterrupted ingestion of the payload of call i leaves
\* on the empty ledger, with the clock readings of call i
Uninterrupted(i) ==
    LET c  == CanonicalInputs(calls[i].shipment, LiveNone)
        us == _upsert_shipment({}, NoRow, c.carrier, c.tracking,
                               ShipFields(calls[i].shipment, c))
        ua == _upsert_audit_result({}, NoRow, us.row.id,
                                   AuditFields(c, calls[i].d, calls[i].exc,
                                               calls[i].t_audit))
        uc == _upsert_claim({}, NoRow, us.row.id, ua.row.id,
                            ClaimFields(calls[i].d, calls[i].t_claim))
    IN  [shipments |-> us.tbl, audit_results |-> ua.tbl,
         claims |-> ClaimWrite(calls[i].d.is_eligible, {}, uc)]

\* call 1 stopped after its Shipment write or after its AuditResult write,
\* and call 2, begun afterwards with the same payload, ran to its end; there
\* is no other call
ReRunAfterStop ==
    /\ calls[1].pc \in {"crashed", "failed"}
    /\ calls[1].stopped_at \in {"s2_get", "s2_put", "s3_get", "s3_put"}
    /\ calls[2].pc = "done"
    /\ calls[2].alone
    /\ calls[2].shipment = calls[1].shipment
    /\ \A k \in CallIds \ {1, 2} : calls[k].pc = "idle"

\* C21: when an ingestion stops after the Shipment write, or after the
\* AuditResult write, one complete re-run with the same payload leaves the
\* ledger one uninterrupted ingestion of that payload produces: one
\* Shipment, one AuditResult, a DRAFT Claim iff eligible, no duplicate.
C21_SelfHealingAfterCrash ==
    ReRunAfterStop =>
        /\ shipments = Uninterrupted(2).shipments
        /\ audit_results = Uninterrupted(2).audit_results
        /\ claims = Uninterrupted(2).claims
        /\ Cardinality(shipments) = 1
        /\ Cardinality(audit_results) = 1
        /\ IF calls[2].d.is_eligible
           THEN \E cl \in claims : claims = {cl} /\ cl.status = "DRAFT"
           ELSE claims = {}

\* the first call died after its AuditResult write, before the claim step,
\* and the re-run wrote the DRAFT claim
C21_Witness ==
    /\ ReRunAfterStop
    /\ calls[1].pc = "crashed"
    /\ calls[1].stopped_at = "s3_get"
    /\ calls[2].exS # NoRow /\ calls[2].exA # NoRow /\ calls[2].exC = NoRow
    /\ Cardinality(claims) = 1

\* a call answered with an error is over, at the step that raised, and what
\* its earlier steps wrote is in the ledger
C30_Inv ==
    \A i \in CallIds :
        calls[i].status_code = 500 =>
            /\ calls[i].pc = "failed"
            /\ calls[i].stopped_at \in {"s1_put", "s2_put", "s3_put"}
            /\ calls[i].stopped_at = "s1_put" =>
                  calls[i].shipment_id = NULL /\ calls[i].audit_id = NULL
            /\ calls[i].stopped_at \in {"s2_put", "s3_put"} =>
                  \E r \in shipments : r.id = calls[i].shipment_id
            /\ calls[i].stopped_at = "s2_put" => calls[i].audit_id = NULL
            /\ calls[i].stopped_at = "s3_put" =>
                  \E a \in audit_results :
                      /\ a.id = calls[i].audit_id
                      /\ a.shipment_id = calls[i].shipment_id

\* the step that raises writes nothing and takes nothing back, and the
\* call takes no step afterwards
C30_Step ==
    \A i \in CallIds :
        /\ calls[i].pc # "failed" /\ calls'[i].pc = "failed" =>
              /\ ledger' = ledger
              /\ calls'[i].status_code = 500
        /\ calls[i].pc = "failed" => calls'[i] = calls[i]
        /\ calls[i].status_code = 500 => calls'[i].status_code = 500

\* C30: a persistence failure at one of the three ledger steps ends the
\* whole call with an error (HTTP 500): no later ledger step of the call is
\* executed, the step is not retried, and the writes of the earlier steps
\* stay in the ledger.
C30_PersistenceFailure == []C30_Inv /\ [][C30_Step]_vars

\* the audit step of the only call raised: the Shipment row is there and
\* has no AuditResult
C30_Witness ==
    /\ calls[1].pc = "failed"
    /\ calls[1].status_code = 500
    /\ calls[1].stopped_at = "s2_put"
    /\ calls[2].pc = "idle"
    /\ \E r \in shipments : r.id = calls[1].shipment_id
    /\ audit_results = {}

\* the rows of the shipment of the retried upsert, in the table it writes
RetriedRows ==
    IF last.op = "upsert_audit_result"
    THEN AuditsOf(audit_results, last.shipment_id)
    ELSE ClaimsOf(claims, last.shipment_id)

CarriesArguments(row) ==
    /\ row.shipment_id = last.shipment_id
    /\ \A k \in DOMAIN last.fields : row[k] = last.fields[k]
    /\ last.op = "upsert_claim" => row.audit_id = last.audit_id

BothAware ==
    /\ last.shipment.promised_delivery.aware
    /\ ActualDt(last.shipment, last.live).aware

\* C31: when both timestamps are timezone-aware, or when actual_utc and
\* promised_utc are 30 minutes or more apart (exactly 30 included), the rule
\* RULE_TZ_AMBIGUOUS_FAIL_CLOSED is not recorded and the verdict is the
\* combined verdict of lateness, guarantee and exception.
C31_GateOnlyUnderAmbiguity ==
    last.op = "ingest"
        /\ (BothAware \/ Abs(last.actual_utc - last.promised_utc) >= 30) =>
        /\ LastAudit.rule_id # "RULE_TZ_AMBIGUOUS_FAIL_CLOSED"
        /\ LastAudit.failure_reason # <<"Ambiguous delivery time (timezone)">>
        /\ LastAudit.is_eligible <=>
              /\ last.actual_utc > last.promised_utc
              /\ last.is_guaranteed
              /\ ~last.exception.found
        /\ LastAudit.variance_amount =
              IF LastAudit.is_eligible THEN last.shipment.total_charged
              ELSE 0

\* naive timestamps exactly 30 minutes apart, late on a guaranteed service:
\* eligible
C31_Witness ==
    /\ last.op = "ingest"
    /\ ~last.shipment.promised_delivery.aware
    /\ ~ActualDt(last.shipment, last.live).aware
    /\ last.actual_utc = last.promised_utc + 30
    /\ LastAudit.rule_id = "RULE_LATE_DELIVERY"
    /\ LastAudit.is_eligible

\* every AuditResult has its Shipment, every Claim has its Shipment and an
\* AuditResult of that Shipment
C32_Inv ==
    /\ \A a \in audit_results : \E sh \in shipments : sh.id = a.shipment_id
    /\ \A cl \in claims :
          /\ \E sh \in shipments : sh.id = cl.shipment_id
          /\ \E a \in audit_results :
                a.id = cl.audit_id /\ a.shipment_id = cl.shipment_id

\* a step writes one table; the AuditResult write of a call comes after its
\* Shipment write and its Claim write after its AuditResult write
C32_Step ==
    /\ audit_results' # audit_results =>
          /\ shipments' = shipments /\ claims' = claims
          /\ \E i \in CallIds :
                /\ calls[i].pc = "s2_put"
                /\ \E sh \in shipments : sh.id = calls[i].shipment_id
    /\ claims' # claims =>
          /\ shipments' = shipments /\ audit_results' = audit_results
          /\ \E i \in CallIds :
                /\ calls[i].pc = "s3_put"
                /\ \E a \in audit_results :
                      /\ a.id = calls[i].audit_id
                      /\ a.shipment_id = calls[i].shipment_id
    /\ shipments' # shipments =>
          audit_results' = audit_results /\ claims' = claims

\* C32: within an ingestion the Shipment write precedes the AuditResult
\* write, which precedes the Claim write; in every reachable state, also
\* after a call stopped between two steps, every AuditResult references an
\* existing Shipment and every Claim of an ingestion references an existing
\* Shipment and an existing AuditResult of that Shipment.
C32_WriteOrder == []C32_Inv /\ [][C32_Step]_vars

\* the only call died after its Shipment write: a Shipment without
\* AuditResult
C32_Witness ==
    /\ calls[1].pc = "crashed"
    /\ calls[1].stopped_at = "s2_get"
    /\ calls[2].pc = "idle"
    /\ Cardinality(shipments) = 1
    /\ audit_results = {}
    /\ claims = {}

\* the rules of a tier that apply to the latest resolver call and are marked
\* not excusable
NonExcusableCodeRules ==
    {r \in exception_rules :
        /\ r.carrier = Upper(Strip(last.carrier))
        /\ r.match_type = "CODE"
        /\ last.code # <<>>
        /\ r.match_value = Upper(last.code)
        /\ ~r.excusable}

NonExcusableKeywordRules ==
    {r \in exception_rules :
        /\ r.carrier = Upper(Strip(last.carrier))
        /\ r.match_type = "KEYWORD"
        /\ r.match_value # <<>>
        /\ Contains(Upper(last.text), Upper(r.match_value))
        /\ ~r.excusable}

C36_ResponseConsistency ==
    last.op = "ingest" =>
        /\ last.response.status = "success"
        /\ last.response.claim_status \in {"DRAFT", "SKIPPED"}
        /\ last.response.claim_status = "DRAFT" <=> LastAudit.is_eligible
        /\ last.response.claim_status = "DRAFT" =>
              /\ last.response.leakage_found = last.shipment.total_charged
              /\ last.response.leakage_found > 0
              /\ \E cl \in claims :
                    /\ cl.shipment_id = last.shipment_id
                    /\ cl.status = "DRAFT"
        /\ last.response.claim_status = "SKIPPED" =>
              last.response.leakage_found = 0

\* a DRAFT answer for a shipment whose claim had been submitted: the upsert
\* wrote DRAFT over it
C36_Witness ==
    /\ last.op = "ingest"
    /\ last.response.claim_status = "DRAFT"
    /\ last.response.leakage_found = 12550
    /\ LastAudit.is_eligible
    /\ last.claim_before.id # NULL
    /\ last.claim_before.status = "SUBMITTED"
    /\ \E cl \in claims :
          /\ cl.shipment_id = last.shipment_id
          /\ cl.id = last.claim_before.id
          /\ cl.status = "DRAFT"

(***************************************************************************)
(* Specification of the batch export: execute_batch statement by           *)
(* statement (query and join, artifact, update loop), next to ingestions,  *)
(* promotions and the dashboard's submissions.                             *)
(***************************************************************************)
\* no file has been written
NoArtifact == [written |-> FALSE, rows |-> <<>>]

\* execute_batch is not running and has not run
BatchIdle ==
    [phase |-> "idle", seen |-> {}, ids_to_update |-> {},
     export_rows |-> <<>>, artifact |-> NoArtifact, updated |-> {}]

\* mutant of Correlated: the audit row is not asked for
Correlated_shipment_only(claim, ships, audits) ==
    \E sh \in ships : sh.id = claim.shipment_id

\* step 2: ship_res.data and audit_res.data of a claim are both non-empty
Correlated(claim, ships, audits) ==
    /\ \E sh \in ships : sh.id = claim.shipment_id
    /\ \E a \in audits : a.id = claim.audit_id

\* step 2: the row of the artifact built for a claim
ExportRow(claim, ships) ==
    LET shipment == CHOOSE sh \in ships : sh.id = claim.shipment_id
    IN  [tracking_number |-> shipment.tracking_number,
         carrier |-> shipment.carrier,
         claim_amount |-> claim.claim_amount,
         promised_delivery |-> shipment.promised_delivery,
         actual_delivery |-> shipment.actual_delivery]

InitBatch ==
    /\ shipments = {}
    /\ audit_results = {}
    /\ claims = {}
    /\ service_commitments \in CommitmentTables
    /\ exception_rules \in ExceptionRuleTables
    /\ now = 0
    /\ last = [op |-> "init"]
    /\ decided = {}
    /\ inflight = [ui |-> Idle, batch |-> BatchIdle]
    /\ calls = NoCalls

IngestForBatch ==
    /\ \E shipment \in AuditPayloads :
         \E t_audit \in Readings(now) :
           \E t_claim \in LaterReadings(t_audit) :
             IngestAndAudit(shipment, LiveNone, t_audit, t_claim)
    /\ UNCHANGED decided

\* steps 1 and 2: the DRAFT claims are queried; for each of them the
\* shipment and the audit row are fetched and, when both are found, a row
\* is added to export_rows and the claim id to ids_to_update.  Without
\* export_rows the run ends here.
BatchQuery ==
    LET claims_data == {c \in claims : c.status = "DRAFT"}
        found == {c \in claims_data : Correlated(c, shipments, audit_results)}
        ids_to_update == {c.id : c \in found}
        export_rows == [cid \in ids_to_update |->
                          ExportRow(RowById(claims, cid), shipments)]
    IN  /\ inflight.batch.phase \in {"idle", "done"}
        /\ inflight' = [inflight EXCEPT !.batch =
                           [phase |-> IF ids_to_update = {} THEN "done"
                                      ELSE "enriched",
                            seen |-> claims,
                            ids_to_update |-> ids_to_update,
                            export_rows |-> export_rows,
                            artifact |-> NoArtifact,
                            updated |-> {}]]
        /\ last' = [op |-> "execute_batch_query"]
        /\ UNCHANGED <<shipments, audit_results, claims,
                       service_commitments, exception_rules, now, decided,
                       calls>>

\* step 3: df.to_csv(filename)
BatchExport ==
    /\ inflight.batch.phase = "enriched"
    /\ inflight' = [inflight EXCEPT
                       !.batch.phase = "exported",
                       !.batch.artifact =
                           [written |-> TRUE,
                            rows |-> inflight.batch.export_rows]]
    /\ last' = [op |-> "execute_batch_export"]
    /\ UNCHANGED <<shipments, audit_results, claims, service_commitments,
                   exception_rules, now, decided, calls>>

\* step 4: one iteration of the update loop, which reads the clock in every
\* iteration
BatchUpdate ==
    /\ inflight.batch.phase = "exported"
    /\ \E cid \in inflight.batch.ids_to_update \ inflight.batch.updated :
         \E t \in Readings(now) :
           /\ claims' = UpdateClaimById(claims, cid,
                            [status |-> "SUBMITTED", submitted_at |-> t])
           /\ now' = t
           /\ inflight' = [inflight EXCEPT
                  !.batch.updated = @ \cup {cid},
                  !.batch.phase =
                      IF inflight.batch.updated \cup {cid}
                            = inflight.batch.ids_to_update
                      THEN "done" ELSE "exported"]
           /\ last' = [op |-> "execute_batch_update", claim_id |-> cid]
    /\ UNCHANGED <<shipments, audit_results, service_commitments,
                   exception_rules, decided, calls>>

NextBatch ==
    \/ IngestForBatch
    \/ PromoteClaims
    \/ MarkClaimsSubmitted
    \/ BatchQuery
    \/ BatchExport
    \/ BatchUpdate

SpecBatch == InitBatch /\ [][NextBatch]_vars

\* the claims execute_batch saw as DRAFT with both rows to be found
Qualifying ==
    {c \in inflight.batch.seen :
        /\ c.status = "DRAFT"
        /\ \E sh \in shipments : sh.id = c.shipment_id
        /\ \E a \in audit_results : a.id = c.audit_id}

\* the ids of the rows of the artifact
ArtifactIds ==
    IF inflight.batch.artifact.written
    THEN DOMAIN inflight.batch.artifact.rows ELSE {}

C37_Inv ==
    /\ inflight.batch.updated \subseteq ArtifactIds
    /\ inflight.batch.updated # {} => inflight.batch.artifact.written
    /\ inflight.batch.artifact.written =>
          ArtifactIds = {c.id : c \in Qualifying}
    /\ inflight.batch.phase = "done" =>
          /\ inflight.batch.updated = {c.id : c \in Qualifying}
          /\ inflight.batch.updated = ArtifactIds
          /\ Qualifying = {} => ~inflight.batch.artifact.written

\* a step of execute_batch changes the claims table only by setting one
\* claim of the artifact to SUBMITTED
C37_Step ==
    inflight'.batch # inflight.batch =>
        \/ claims' = claims
        \/ \E cid \in ArtifactIds :
              /\ inflight.batch.artifact.written
              /\ inflight'.batch.updated = inflight.batch.updated \cup {cid}
              /\ \A c \in claims : c.id # cid => c \in claims'
              /\ \A c \in claims' :
                    \/ c \in claims
                    \/ /\ c.id = cid
                       /\ c.status = "SUBMITTED"
                       /\ c.submitted_at = now'
                       /\ Without(Without(c, "status"), "submitted_at") =
                            Without(Without(RowById(claims, cid), "status"),
                                    "submitted_at")

\* C37: execute_batch sets a claim to SUBMITTED exactly when the claim was
\* DRAFT when queried and its shipment row and its audit row were both
\* found, that is when it is a row of the artifact; the updates come after
\* the artifact is written; claims whose shipment or audit is not found and
\* claims that are not DRAFT are left as they are, and when no claim
\* qualifies nothing is written.
C37_ExportedIsSubmitted == []C37_Inv /\ [][C37_Step]_vars

\* a finished run that saw a DRAFT claim with its audit and a DRAFT claim
\* without one: the first is in the artifact and SUBMITTED, the second is
\* still DRAFT
C37_Witness ==
    /\ inflight.batch.phase = "done"
    /\ last.op = "execute_batch_update"
    /\ inflight.batch.artifact.written
    /\ \E c, q \in inflight.batch.seen :
          /\ c.status = "DRAFT" /\ q.status = "DRAFT"
          /\ c.audit_id # NULL /\ q.audit_id = NULL
          /\ c.id \in ArtifactIds /\ q.id \notin ArtifactIds
          /\ RowById(claims, c.id).status = "SUBMITTED"
          /\ RowById(claims, q.id).status = "DRAFT"

(***************************************************************************)
(* Specification of the normalization: step 0 of the handler applied to    *)
(* two request bodies, each field a spelling of a base text (how: the ways *)
(* the spelling differs from the base).                                    *)
(***************************************************************************)
\* spellings of carrier names
CarrierSpellings ==
    { [text |-> <<"F","e","d","E","x">>,
        base |-> <<"F","E","D","E","X">>,
        how |-> {"case"}],
      [text |-> <<" ","f","e","d","e","x"," ">>,
        base |-> <<"F","E","D","E","X">>,
        how |-> {"case", "surround"}],
      [text |-> <<"F","d","x">>,
        base |-> <<"F","D","X">>,
        how |-> {"case"}],
      [text |-> <<"U","P","S">>,
        base |-> <<"U","P","S">>,
        how |-> {}],
      [text |-> <<"\t","U","n","i","t","e","d"," ","P","a","r","c","e","l"," ","S","e","r","v","i","c","e">>,
        base |-> <<"U","N","I","T","E","D"," ","P","A","R","C","E","L"," ","S","E","R","V","I","C","E">>,
        how |-> {"case", "surround"}],
      [text |-> <<"U","N","I","T","E","D"," "," ","P","A","R","C","E","L"," ","S","E","R","V","I","C","E">>,
        base |-> <<"U","N","I","T","E","D"," ","P","A","R","C","E","L"," ","S","E","R","V","I","C","E">>,
        how |-> {"internal"}] }

\* spellings of service types
ServiceSpellings ==
    { [text |-> <<"N","E","X","T"," ","D","A","Y"," ","A","I","R">>,
        base |-> <<"N","E","X","T"," ","D","A","Y"," ","A","I","R">>,
        how |-> {}],
      [text |-> <<"N","e","x","t"," ","D","a","y"," ","A","i","r">>,
        base |-> <<"N","E","X","T"," ","D","A","Y"," ","A","I","R">>,
        how |-> {"case"}],
      [text |-> <<"\t","n","e","x","t"," "," ","d","a","y","\t","a","i","r"," ">>,
        base |-> <<"N","E","X","T"," ","D","A","Y"," ","A","I","R">>,
        how |-> {"case", "surround", "internal"}],
      [text |-> <<>>,
        base |-> <<>>,
        how |-> {}],
      [text |-> <<" "," ">>,
        base |-> <<>>,
        how |-> {"surround"}] }

\* spellings of tracking numbers
TrackingSpellings ==
    { [text |-> <<"1","Z","9","A">>,
        base |-> <<"1","Z","9","A">>,
        how |-> {}],
      [text |-> <<" ","1","Z","9","A"," ">>,
        base |-> <<"1","Z","9","A">>,
        how |-> {"surround"}],
      [text |-> <<"1","z","9","a">>,
        base |-> <<"1","Z","9","A">>,
        how |-> {"case"}],
      [text |-> <<"1","Z"," "," ","9","A">>,
        base |-> <<"1","Z"," ","9","A">>,
        how |-> {"internal"}] }

NormalizeInputs ==
    [carrier : CarrierSpellings, service_type : ServiceSpellings,
     tracking_number : TrackingSpellings]

\* step 0 on one request body, and each normalizer on its own result
Normalized(x) ==
    LET c == CanonicalInputs(
                 ShipmentIngest(x.tracking_number.text, x.carrier.text,
                                x.service_type.text, 12550, PromisedAware,
                                Aware(555, -300)),
                 LiveNone)
    IN  [carrier |-> c.carrier, tracking |-> c.tracking,
         service_norm |-> c.service_norm,
         carrier_again |-> _normalize_carrier(c.carrier),
         service_norm_again |-> _normalize_service_type(c.service_norm)]

InitNormalize ==
    /\ shipments = {}
    /\ audit_results = {}
    /\ claims = {}
    /\ service_commitments \in CommitmentTables
    /\ exception_rules \in ExceptionRuleTables
    /\ now = 0
    /\ last \in {[op |-> "input", a |-> a, b |-> b] :
                    a \in NormalizeInputs, b \in NormalizeInputs}
    /\ decided = {}
    /\ inflight = NoRuns
    /\ calls = NoCalls

Normalize ==
    /\ last.op = "input"
    /\ last' = [op |-> "normalize", a |-> last.a, b |-> last.b,
                ra |-> Normalized(last.a), rb |-> Normalized(last.b)]
    /\ UNCHANGED <<shipments, audit_results, claims, service_commitments,
                   exception_rules, now, decided, inflight, calls>>

NextNormalize == Normalize

SpecNormalize == InitNormalize /\ [][NextNormalize]_vars

\* a string is upper-cased, without whitespace at either end, its words one
\* blank apart
Canonical(str) ==
    /\ \A i \in 1..Len(str) :
          /\ \A k \in 1..Len(LowerChars) : str[i] # LowerChars[k]
          /\ str[i] # "\t"
    /\ str # <<>> => str[1] # " " /\ str[Len(str)] # " "
    /\ \A i \in 1..(Len(str) - 1) : ~(str[i] = " " /\ str[i + 1] = " ")

\* the two normalizers on one request body: the service type is canonical
\* and a fixed point; the carrier aliases are mapped whatever the case and
\* the whitespace around them, and the result is a fixed point
NormalizedWell(x, r) ==
    /\ Canonical(r.service_norm)
    /\ r.service_norm = x.service_type.base
    /\ r.service_norm_again = r.service_norm
    /\ r.carrier_again = r.carrier
    /\ "internal" \notin x.carrier.how =>
          /\ x.carrier.base \in {S_FEDEX, S_FEDX, S_FDX} => r.carrier = S_FEDEX
          /\ x.carrier.base \in {S_UPS, S_UNITED_PARCEL_SERVICE} =>
                r.carrier = S_UPS

\* the fields of two request bodies differ in nothing but the ways `ways`
DifferOnlyIn(p, q, ways) ==
    p.base = q.base /\ (p.how \cup q.how) \subseteq ways

\* C38 as stated: the normalizers are deterministic and idempotent as
\* described, and two request bodies that differ only in case or in the
\* whitespace around or inside their fields get the same lookup key
\* (carrier, normalized service type) and the same natural key (carrier,
\* tracking number).
C38_Original ==
    last.op = "normalize" =>
        /\ NormalizedWell(last.a, last.ra)
        /\ NormalizedWell(last.b, last.rb)
        /\ (\A f \in {"carrier", "service_type", "tracking_number"} :
                DifferOnlyIn(last.a[f], last.b[f],
                             {"case", "surround", "internal"}))
           =>
           /\ <<last.ra.carrier, last.ra.service_norm>> =
                 <<last.rb.carrier, last.rb.service_norm>>
           /\ <<last.ra.carrier, last.ra.tracking>> =
                 <<last.rb.carrier, last.rb.tracking>>

\* C38 (amended): the normalizers are deterministic and idempotent as
\* described; two request bodies whose service types differ in case and
\* whitespace and whose carriers differ in case and surrounding whitespace
\* get the same lookup key; they get the same natural key when moreover
\* their tracking numbers differ in surrounding whitespace only (the
\* tracking number is trimmed, its case and inner whitespace are kept, and
\* the whitespace inside a carrier name is kept).
C38_Normalization ==
    last.op = "normalize" =>
        /\ NormalizedWell(last.a, last.ra)
        /\ NormalizedWell(last.b, last.rb)
        /\ /\ DifferOnlyIn(last.a.carrier, last.b.carrier,
                           {"case", "surround"})
           /\ DifferOnlyIn(last.a.service_type, last.b.service_type,
                           {"case", "surround", "internal"})
           =>
           /\ <<last.ra.carrier, last.ra.service_norm>> =
                 <<last.rb.carrier, last.rb.service_norm>>
           /\ DifferOnlyIn(last.a.tracking_number, last.b.tracking_number,
                           {"surround"})
              => <<last.ra.carrier, last.ra.tracking>> =
                    <<last.rb.carrier, last.rb.tracking>>
        /\ /\ last.a.tracking_number.base = last.b.tracking_number.base
           /\ "case" \in last.a.tracking_number.how
                            \cup last.b.tracking_number.how
           /\ last.a.tracking_number.text # last.b.tracking_number.text
           => last.ra.tracking # last.rb.tracking

\* two bodies in different spellings of FEDEX, NEXT DAY AIR and 1Z9A with
\* the same keys, the service type spelled with tabs and runs of blanks
C38_Witness ==
    /\ last.op = "normalize"
    /\ last.a.carrier.text # last.b.carrier.text
    /\ last.a.tracking_number.text # last.b.tracking_number.text
    /\ last.a.service_type.how = {}
    /\ last.b.service_type.how = {"case", "surround", "internal"}
    /\ last.ra.carrier = S_FEDEX /\ last.rb.carrier = S_FEDEX
    /\ last.ra.service_norm = last.rb.service_norm
    /\ last.rb.service_norm = SVC_NEXT_DAY_AIR
    /\ last.ra.tracking = last.rb.tracking

(***************************************************************************)
(* Specification of the concurrent re-ingestion: a shipment is ingested,   *)
(* then calls for the same natural key with other field values run        *)
(* statement by statement, side by side.                                   *)
(***************************************************************************)
\* FedEx T1 as first stored: delivered before the promise, or late
StoredPayloads ==
    { ShipmentIngest(T_1, C_FedEx, SVC_priority, 9000,
                     PromisedAware, Aware(300, -300)),
      ShipmentIngest(T_1, C_FedEx, SVC_priority, 9000,
                     PromisedAware, Aware(500, -300)) }

\* FedEx T1 again: late with charge 125.50, late with charge 40.00, in time
\* with charge 40.00
ReingestPayloads ==
    { ShipmentIngest(T_1, C_FedEx, SVC_priority, 12550,
                     PromisedAware, Aware(555, -300)),
      ShipmentIngest(T_1, C_FedEx, SVC_priority, 4000,
                     PromisedAware, Aware(540, -300)),
      ShipmentIngest(T_1, C_FedEx, SVC_priority, 4000,
                     PromisedAware, Aware(310, -300)) }

\* the first ingestion of the shipment, alone
IngestStored ==
    /\ shipments = {}
    /\ \E shipment \in StoredPayloads :
         \E t_audit \in Readings(now) :
           IngestAndAudit(shipment, LiveNone, t_audit, t_audit)
    /\ UNCHANGED decided

\* a call for the stored shipment begins, with a payload no other call has
BeginReingest(i) ==
    /\ shipments # {}
    /\ BeginCallWith(i, {p \in ReingestPayloads :
                            \A j \in CallIds : calls[j].shipment # p})

NextReingest ==
    \/ IngestStored
    \/ \E i \in CallIds :
        \/ BeginReingest(i)
        \/ GetShipment(i)
        \/ PutShipment(i)
        \/ GetAudit(i)
        \/ PutAudit(i)
        \/ GetClaim(i)
        \/ PutClaim(i)

SpecReingest == Init /\ [][NextReingest]_vars

\* the calls of the re-ingestion have all returned
AllReturned == \A i \in CallIds : calls[i].pc = "done"

\* the rows of the ledger are the ones call i writes
WrittenBy(i) ==
    LET c == CanonicalInputs(calls[i].shipment, LiveNone)
    IN  /\ \A sh \in shipments :
              /\ sh.total_charged = calls[i].shipment.total_charged
              /\ sh.actual_delivery = c.actual_utc
        /\ \A a \in audit_results :
              /\ a.is_eligible = calls[i].d.is_eligible
              /\ a.variance_amount = calls[i].d.refundable_amount
              /\ a.rule_id = calls[i].d.rule_id
        /\ calls[i].d.is_eligible =>
              \A cl \in claims :
                  cl.claim_amount = calls[i].d.refundable_amount

\* C33: when calls of ingest_and_audit with different field values for one
\* stored (carrier, tracking_number) interleave step by step, the final
\* ledger has one Shipment, one AuditResult and at most one Claim, and the
\* Shipment row, the AuditResult row and the Claim amount all come from the
\* same one of the calls.
C33_ConcurrentReingestion ==
    AllReturned =>
        /\ Cardinality(shipments) = 1
        /\ Cardinality(audit_results) = 1
        /\ Cardinality(claims) <= 1
        /\ \E i \in CallIds : WrittenBy(i)

====
